---- MODULE Spec2Model ----
(***************************************************************************)
(* geoutils.vector: Vector.buffer_without_overlap, Vector.buffer_metric,   *)
(* extract_vertices, generate_voronoi_polygons and                         *)
(* generate_voronoi_with_bounds, over a raster model of the geometry       *)
(* engine.                                                                 *)
(*                                                                         *)
(* Geometry engine.  Input geometries are made of closed axis-parallel     *)
(* boxes with corners on a lattice of spacing 50 (a box flat in one        *)
(* direction is a line, flat in both a point).  Every derived region       *)
(* (buffer, Voronoi cell, intersection, difference, union) is a set of     *)
(* pixels, a pixel being the closed square of side 25 named by its         *)
(* lower-left corner.  A pixel belongs to a buffer or to a Voronoi cell    *)
(* when its sample point (corner + (1,7), which lies on no bisector of     *)
(* two lattice points of the catalogue) does.  Area is the number of       *)
(* pixels; `intersects' and `explode' are exact on unions of pixels.       *)
(*                                                                         *)
(* Spec follows one call of buffer_without_overlap step by step.           *)
(* SpecVector follows a vector through calls of query, crop, __getitem__,  *)
(* reproject, rasterize, proximity and create_mask, each call one step.    *)
(* SpecFrame adds create_mask to the steps of Spec.  SpecExtract calls     *)
(* extract_vertices on collections that hold a polygon with a hole.        *)
(* SpecMisc follows calls of the functions of geoutils.misc as             *)
(* tests/test_misc.py makes them.                                          *)
(***************************************************************************)
EXTENDS Integers, Sequences, FiniteSets, TLC

(* ------------------------------ bounds -------------------------------- *)
\* Longest input collection.
MaxGeoms == 2
\* Largest buffer size, in pixel sides (buffer_size = 25 * k, k in 1..MaxBuffer).
MaxBuffer == 2

(* --------------------------- small helpers ---------------------------- *)
Max(a, b) == IF a >= b THEN a ELSE b
Range(s) == {s[k] : k \in 1..Len(s)}

RECURSIVE SumOver(_, _)
SumOver(f, S) ==
    IF S = {} THEN 0
    ELSE LET x == CHOOSE y \in S : TRUE IN f[x] + SumOver(f, S \ {x})

RECURSIVE Concat(_)
\* np.concatenate / list.extend over a list of lists
Concat(ss) == IF ss = <<>> THEN <<>> ELSE Head(ss) \o Concat(Tail(ss))

RECURSIVE Dedup(_)
\* the distinct elements of a sequence, in order of first occurrence
Dedup(s) ==
    IF s = <<>> THEN <<>>
    ELSE LET r == Dedup(SubSeq(s, 1, Len(s) - 1))
             x == s[Len(s)]
         IN IF x \in Range(r) THEN r ELSE Append(r, x)

\* the permutations (as sequences) of a finite set
Perms(S) == {f \in [1..Cardinality(S) -> S] : \A a, b \in 1..Cardinality(S) : f[a] = f[b] => a = b}

(* ------------------------ boxes and geometries ------------------------ *)
Box(x0, y0, x1, y1) == [x0 |-> x0, y0 |-> y0, x1 |-> x1, y1 |-> y1]
Dim(b) == (IF b.x1 > b.x0 THEN 1 ELSE 0) + (IF b.y1 > b.y0 THEN 1 ELSE 0)
Shift(b, dx) == [b EXCEPT !.x0 = @ + dx, !.x1 = @ + dx]

\* coords of a part: the closed exterior ring of a polygon box, the two
\* ends of a line, the point itself
Coords(b) ==
    IF Dim(b) = 2
    THEN << <<b.x0, b.y0>>, <<b.x1, b.y0>>, <<b.x1, b.y1>>, <<b.x0, b.y1>>, <<b.x0, b.y0>> >>
    ELSE IF Dim(b) = 1 THEN << <<b.x0, b.y0>>, <<b.x1, b.y1>> >>
    ELSE << <<b.x0, b.y0>> >>

\* A geometry: its kind and its parts.  A Polygon is held as the boxes that
\* tile it together with its exterior ring.
Geom(kind, parts) ==
    [geom_type |-> kind, geoms |-> parts,
     exterior |-> IF kind = "Polygon" THEN Coords(parts[1]) ELSE <<>>]
\* the rings of the holes of a geometry
Interiors(g) == IF "interiors" \in DOMAIN g THEN g.interiors ELSE <<>>
ShiftGeom(g, dx) ==
    [g EXCEPT !.geoms = [k \in 1..Len(g.geoms) |-> Shift(g.geoms[k], dx)],
              !.exterior = [k \in 1..Len(g.exterior) |-> <<g.exterior[k][1] + dx, g.exterior[k][2]>>]]

\* The geometries input collections are drawn from: two squares that touch
\* at a corner, an L-shaped polygon, a line, the two squares as one
\* MultiPolygon, two lines as one MultiLineString, a point.
SQ  == Geom("Polygon", <<Box(100, 150, 150, 200)>>)
SQ2 == Geom("Polygon", <<Box(150, 100, 200, 150)>>)
EL  == [Geom("Polygon", <<Box(100, 150, 150, 200), Box(100, 100, 200, 150)>>)
           EXCEPT !.exterior = << <<100, 100>>, <<200, 100>>, <<200, 150>>, <<150, 150>>,
                                  <<150, 200>>, <<100, 200>>, <<100, 100>> >>]
LN  == Geom("LineString", <<Box(0, 0, 250, 0)>>)
MP  == Geom("MultiPolygon", <<Box(100, 150, 150, 200), Box(150, 100, 200, 150)>>)
MLS == Geom("MultiLineString", <<Box(0, 0, 0, 200), Box(250, 0, 250, 200)>>)
PT  == Geom("Point", <<Box(50, 50, 50, 50)>>)
Catalogue == {SQ, SQ2, EL, LN, MP, MLS, PT}

(* ------------------------------ pixels -------------------------------- *)
Sample(p) == <<p[1] + 1, p[2] + 7>>

\* squared distance from point s to the closed box b
Dist2(s, b) ==
    LET dx == Max(Max(b.x0 - s[1], s[1] - b.x1), 0)
        dy == Max(Max(b.y0 - s[2], s[2] - b.y1), 0)
    IN dx * dx + dy * dy

D2(s, v) == (s[1] - v[1]) * (s[1] - v[1]) + (s[2] - v[2]) * (s[2] - v[2])

\* the pixels of the window that reaches r beyond the box b
Window(b, r) ==
    LET m == 25 * ((r + 24) \div 25)
        nx == (b.x1 - b.x0 + 2 * m) \div 25
        ny == (b.y1 - b.y0 + 2 * m) \div 25
    IN {<<b.x0 - m + 25 * i, b.y0 - m + 25 * j>> : i \in 0..(nx - 1), j \in 0..(ny - 1)}

\* the closed pixel p and the closed box b share a point
PixelTouches(p, b) ==
    /\ p[1] <= b.x1 /\ p[1] + 25 >= b.x0
    /\ p[2] <= b.y1 /\ p[2] + 25 >= b.y0

\* the pixel p lies inside the box b (which then has an area)
PixelIn(p, b) ==
    /\ b.x0 <= p[1] /\ p[1] + 25 <= b.x1
    /\ b.y0 <= p[2] /\ p[2] + 25 <= b.y1

PixelLess(p, q) == p[1] < q[1] \/ (p[1] = q[1] /\ p[2] < q[2])
MinPixel(S) == CHOOSE p \in S : \A q \in S \ {p} : PixelLess(p, q)

\* the pixels sharing an edge with p
Neighbours(p) == {<<p[1] - 25, p[2]>>, <<p[1] + 25, p[2]>>, <<p[1], p[2] - 25>>, <<p[1], p[2] + 25>>}

RECURSIVE Grow(_, _, _)
\* the part of S connected to C, whose pixels added last are F
Grow(C, F, S) ==
    LET M == (UNION {Neighbours(q) : q \in F} \cap S) \ C
    IN IF M = {} THEN C ELSE Grow(C \cup M, M, S)

RECURSIVE Parts(_)
\* the single-part polygons of a region, as shapely hands them to explode
Parts(S) ==
    IF S = {} THEN <<>>
    ELSE LET m == MinPixel(S)
             C == Grow({m}, {m}, S)
         IN <<C>> \o Parts(S \ C)

ShiftPixels(S, dx) == {<<p[1] + dx, p[2]>> : p \in S}

(* ------------------- coordinate reference systems -------------------- *)
\* A CRS is its EPSG code: 4326 (geographic, the CRS of the input vectors)
\* or 326zz / 327zz (UTM zone zz, north / south).  One degree is one pixel
\* side; a UTM zone is 6 degrees wide and its eastings are counted from a
\* false easting at the zone's central meridian.
WGS84 == 4326

Easting0(crs) == IF crs = WGS84 THEN 0 ELSE 150 * ((crs % 100) - 31) + 75 - 500

\* geoutils.projtools.latlon_to_utm: the UTM zone of a latitude / longitude
latlon_to_utm(lat, lon) == [zone |-> ((lon + 180) \div 6) + 1, north |-> lat >= 0]

\* geoutils.projtools.utm_to_epsg
utm_to_epsg(utm) == IF utm.north THEN 32600 + utm.zone ELSE 32700 + utm.zone

\* GeoDataFrame.to_crs on a frame of input geometries
to_crs(df, crs) ==
    LET dx == Easting0(df.crs) - Easting0(crs)
    IN [df EXCEPT !.crs = crs,
                  !.geometry = [k \in 1..Len(df.geometry) |-> ShiftGeom(df.geometry[k], dx)]]

\* GeoDataFrame.to_crs on a frame of derived (pixel) geometries
to_crs_rows(df, crs) ==
    LET dx == Easting0(df.crs) - Easting0(crs)
    IN [crs |-> crs,
        rows |-> [k \in 1..Len(df.rows) |->
                    [df.rows[k] EXCEPT !.geometry = ShiftPixels(@, dx)]]]

\* shapely centroid of one geometry, from its parts of highest dimension,
\* weighted by area, length or count; <<x, y>>
Centroid(g) ==
    LET ks == 1..Len(g.geoms)
        d  == CHOOSE m \in 0..2 : (\E k \in ks : Dim(g.geoms[k]) = m)
                                  /\ (\A k \in ks : Dim(g.geoms[k]) <= m)
        top == {k \in ks : Dim(g.geoms[k]) = d}
        w  == [k \in top |->
                 LET b == g.geoms[k]
                 IN IF d = 2 THEN (b.x1 - b.x0) * (b.y1 - b.y0)
                    ELSE IF d = 1 THEN (b.x1 - b.x0) + (b.y1 - b.y0) ELSE 1]
        W  == SumOver(w, top)
        sx == SumOver([k \in top |-> w[k] * (g.geoms[k].x0 + g.geoms[k].x1)], top)
        sy == SumOver([k \in top |-> w[k] * (g.geoms[k].y0 + g.geoms[k].y1)], top)
    IN <<sx \div (2 * W), sy \div (2 * W)>>

\* lines 856-864 and 781-789: the EPSG code of the local UTM, from the
\* centroid of the geometry at position 0 of the frame in geographic
\* coordinates (centroid.y.values[0], centroid.x.values[0])
LocalUtmEpsg(ds) ==
    LET shp_wgs84 == to_crs(ds, WGS84)
        c   == Centroid(shp_wgs84.geometry[1])
        lat == c[2] \div 25
        lon == c[1] \div 25
    IN utm_to_epsg(latlon_to_utm(lat, lon))

(* ------------------------ geometry engine calls ----------------------- *)
AllBoxes(gdf) == UNION {Range(gdf.geometry[k].geoms) : k \in 1..Len(gdf.geometry)}

\* total_bounds of a frame, as a box
TotalBounds(gdf) ==
    LET B == AllBoxes(gdf)
    IN Box(CHOOSE x \in {b.x0 : b \in B} : \A b \in B : x <= b.x0,
           CHOOSE y \in {b.y0 : b \in B} : \A b \in B : y <= b.y0,
           CHOOSE x \in {b.x1 : b \in B} : \A b \in B : x >= b.x1,
           CHOOSE y \in {b.y1 : b \in B} : \A b \in B : y >= b.y1)

\* gdf.dissolve(): all geometries merged into one
dissolve(gdf) == [crs |-> gdf.crs, boxes |-> AllBoxes(gdf)]

\* shapely buffer of a set of boxes, as a region
BufferOf(B, window, r) == {p \in window : \E b \in B : Dist2(Sample(p), b) <= r * r}

\* the region a set of boxes covers
RegionOf(B, window) == {p \in window : \E b \in B : PixelIn(p, b)}

\* The buffer of the merged geometries without the difference with them.
BufferWithInput(gdf, buffer_size) ==
    BufferOf(dissolve(gdf).boxes, Window(TotalBounds(gdf), buffer_size), buffer_size)

\* lines 871-877: merged, merged_buffer and buffer = merged_buffer - merged
BufferBand(gdf, buffer_size) ==
    LET merged == dissolve(gdf)
        window == Window(TotalBounds(gdf), buffer_size)
        merged_buffer == BufferOf(merged.boxes, window, buffer_size)
    IN merged_buffer \ RegionOf(merged.boxes, window)

\* geoutils.projtools.bounds2poly on a geodataframe: the polygon of its
\* total bounds
bounds2poly(gdf) == TotalBounds(gdf)

\* lines 880-881: bound_poly = bounds2poly(gdf).buffer(buffer_size)
BoundPoly(gdf, buffer_size) ==
    LET bp == bounds2poly(gdf)
    IN BufferOf({bp}, Window(bp, buffer_size), buffer_size)

\* predicate "intersects" of the spatial join between an input geometry
\* and a piece
Intersects(g, piece) == \E p \in piece : \E k \in 1..Len(g.geoms) : PixelTouches(p, g.geoms[k])

(* -------------------------- extract_vertices -------------------------- *)
\* the result of a call: the value returned, or the exception raised
Return(v) == [raised |-> "", value |-> v]
Raise(e)  == [raised |-> e, value |-> <<>>]

NotImplemented == "NotImplementedError: Geometry type not implemented."
InvalidGeometry == "ValueError: Invalid geometry, cannot generate finite Voronoi polygons"
QhullError == "QhullError"

\* Exteriors with the else branch skipping the geometry instead of raising
ExteriorsSkipping(geom) ==
    IF geom.geom_type \in {"MultiPolygon", "MultiLineString"}
    THEN Return([k \in 1..Len(geom.geoms) |-> Coords(geom.geoms[k])])
    ELSE IF geom.geom_type = "Polygon" THEN Return(<<geom.exterior>>)
    ELSE IF geom.geom_type = "LineString" THEN Return(<<Coords(geom.geoms[1])>>)
    ELSE Return(<<>>)

\* Exteriors taking the rings of the holes of a Polygon too.
ExteriorsWithHoles(geom) ==
    IF geom.geom_type \in {"MultiPolygon", "MultiLineString"}
    THEN Return([k \in 1..Len(geom.geoms) |-> Coords(geom.geoms[k])])
    ELSE IF geom.geom_type = "Polygon" THEN Return(<<geom.exterior>> \o Interiors(geom))
    ELSE IF geom.geom_type = "LineString" THEN Return(<<Coords(geom.geoms[1])>>)
    ELSE Raise(NotImplemented)

\* lines 952-961: the exteriors of one geometry, or the exception
Exteriors(geom) ==
    IF geom.geom_type = "MultiPolygon"
    THEN Return([k \in 1..Len(geom.geoms) |-> Coords(geom.geoms[k])])
    ELSE IF geom.geom_type = "Polygon" THEN Return(<<geom.exterior>>)
    ELSE IF geom.geom_type = "LineString" THEN Return(<<Coords(geom.geoms[1])>>)
    ELSE IF geom.geom_type = "MultiLineString"
    THEN Return([k \in 1..Len(geom.geoms) |-> Coords(geom.geoms[k])])
    ELSE Raise(NotImplemented)

RECURSIVE ExtractLoop(_, _, _)
\* lines 950-963, from the geometry at position i on, with the list so far
ExtractLoop(geometry, i, vertices) ==
    IF i > Len(geometry) THEN Return(vertices)
    ELSE LET e == Exteriors(geometry[i])
         IN IF e.raised # "" THEN e
            ELSE ExtractLoop(geometry, i + 1, vertices \o e.value)

extract_vertices(gdf) == ExtractLoop(gdf.geometry, 1, <<>>)

(* --------------------- generate_voronoi_polygons ---------------------- *)
Cross(o, a, b) == (a[1] - o[1]) * (b[2] - o[2]) - (a[2] - o[2]) * (b[1] - o[1])

Collinear(P) == \A a, b, c \in P : Cross(a, b, c) = 0

\* v has an unbounded Voronoi region among the points P: a line through v
\* has all of P on one side
OnHull(v, P) ==
    \E p \in P \ {v} : \/ \A q \in P : Cross(v, p, q) >= 0
                       \/ \A q \in P : Cross(v, p, q) <= 0

\* line 983, scipy.spatial.Voronoi: Qhull fails on fewer than three points
\* that are not on one line, and otherwise gives the diagram of the
\* distinct points
Voronoi(coords) ==
    IF Collinear(Range(coords)) THEN Raise(QhullError)
    ELSE Return([points |-> Dedup(coords)])

\* Polygonize keeping the regions of all the points, the unbounded ones too
PolygonizeUnbounded(vor) ==
    [k \in 1..Len(vor.points) |-> [site |-> vor.points[k], sites |-> Range(vor.points)]]

\* lines 984-985: the ridges with no vertex at infinity, polygonized: the
\* closed cells are the regions of the points with a bounded region.  A
\* cell is kept as its site and all the sites.
Polygonize(vor) ==
    LET P == Range(vor.points)
        InnerPoint(v) == ~OnHull(v, P)
        inner == SelectSeq(vor.points, InnerPoint)
    IN [k \in 1..Len(inner) |-> [site |-> inner[k], sites |-> P]]

\* VoronoiPolygonsOf without the test len(polys) == 0
VoronoiPolygonsUnchecked(crs, vertices) ==
    LET vor == Voronoi(Concat(vertices))
    IN IF vor.raised # "" THEN vor
       ELSE LET polys == Polygonize(vor.value)
            IN Return([crs |-> crs,
                       rows |-> [k \in 1..Len(polys) |-> [index |-> k, geometry |-> polys[k]]]])

\* lines 980-993, from the vertices extract_vertices returned
VoronoiPolygonsOf(crs, vertices) ==
    LET coords == Concat(vertices)
        vor == Voronoi(coords)
    IN IF vor.raised # "" THEN vor
       ELSE LET polys == Polygonize(vor.value)
            IN IF Len(polys) = 0 THEN Raise(InvalidGeometry)
               ELSE Return([crs |-> crs,
                            rows |-> [k \in 1..Len(polys) |-> [index |-> k, geometry |-> polys[k]]]])

generate_voronoi_polygons(gdf) ==
    LET v == extract_vertices(gdf)
    IN IF v.raised # "" THEN v ELSE VoronoiPolygonsOf(gdf.crs, v.value)

(* -------------------- generate_voronoi_with_bounds -------------------- *)
\* CellIn with the cell cut one pixel beyond the region
CellAround(cell, region) ==
    {p \in region \cup UNION {Neighbours(q) : q \in region} :
        \A w \in cell.sites \ {cell.site} : D2(Sample(p), cell.site) < D2(Sample(p), w)}

\* the part of a Voronoi cell inside a region
CellIn(cell, region) ==
    {p \in region : \A w \in cell.sites \ {cell.site} :
                        D2(Sample(p), cell.site) < D2(Sample(p), w)}

\* VoronoiWithBoundsOf returning the cropped polygons whatever the gaps
VoronoiWithoutGaps(gdf, voronoi, bound_poly) ==
    [crs |-> voronoi.crs,
     rows |-> [k \in 1..Len(voronoi.rows) |->
                 [index |-> k, geometry |-> CellIn(voronoi.rows[k].geometry, bound_poly)]]]

\* lines 1012-1032, from the polygons generate_voronoi_polygons returned
VoronoiWithBoundsOf(gdf, voronoi, bound_poly) ==
    LET voronoi_crop == [k \in 1..Len(voronoi.rows) |->
                            [index |-> k, geometry |-> CellIn(voronoi.rows[k].geometry, bound_poly)]]
        voronoi_merged == UNION {voronoi_crop[k].geometry : k \in 1..Len(voronoi_crop)}
        gaps == bound_poly \ voronoi_merged
        tot_area == Cardinality(gaps)
    IN IF ~(tot_area = 0)
       THEN [crs |-> gdf.crs,
             rows |-> [k \in 1..(Len(voronoi_crop) + 1) |->
                         IF k <= Len(voronoi_crop) THEN voronoi_crop[k]
                         ELSE [index |-> k, geometry |-> gaps]]]
       ELSE [crs |-> voronoi.crs, rows |-> voronoi_crop]

generate_voronoi_with_bounds(gdf, bound_poly) ==
    LET voronoi == generate_voronoi_polygons(gdf)
    IN IF voronoi.raised # "" THEN voronoi
       ELSE Return(VoronoiWithBoundsOf(gdf, voronoi.value, bound_poly))

(* ------------------------ overlap resolution -------------------------- *)
\* index_left of a piece the join matched to no geometry (NaN); the
\* identities of the input geometries are their positions 1..n
NaN == 0

\* ExplodeIn without the intersection with the buffer band
ExplodeWhole(voronoi_all, band) ==
    LET parts == [k \in 1..Len(voronoi_all.rows) |-> Parts(voronoi_all.rows[k].geometry)]
    IN [crs |-> voronoi_all.crs,
        rows |-> Concat([k \in 1..Len(voronoi_all.rows) |->
                           [j \in 1..Len(parts[k]) |->
                               [index |-> <<k, j>>, geometry |-> parts[k][j]]]])]

\* lines 891 and 895: every polygon cut to the buffer band, then split
\* into single parts under the index (row, part)
ExplodeIn(voronoi_all, band) ==
    LET parts == [k \in 1..Len(voronoi_all.rows) |-> Parts(voronoi_all.rows[k].geometry \cap band)]
        pieces == Concat([k \in 1..Len(voronoi_all.rows) |->
                            [j \in 1..Len(parts[k]) |->
                                [index |-> <<k, j>>, geometry |-> parts[k][j]]]])
    IN [crs |-> voronoi_all.crs, rows |-> pieces]

\* line 896, gpd.tools.sjoin(gdf, voronoi_gdf, how="right"): one row per
\* piece and geometry intersecting it, the matches of a piece in the order
\* the spatial index gives the geometries; one row of index_left NaN for
\* a piece no geometry intersects
sjoin(gdf, voronoi_gdf, order) ==
    LET RowsOf(row) ==
            LET Hit(i) == Intersects(gdf.geometry[i], row.geometry)
                hits == SelectSeq(order, Hit)
            IN IF hits = <<>>
               THEN << [index |-> row.index, index_left |-> NaN, geometry |-> row.geometry] >>
               ELSE [h \in 1..Len(hits) |->
                        [index |-> row.index, index_left |-> hits[h], geometry |-> row.geometry]]
    IN [crs |-> voronoi_gdf.crs,
        rows |-> Concat([k \in 1..Len(voronoi_gdf.rows) |-> RowsOf(voronoi_gdf.rows[k])])]

IndexLess(a, b) == a[1] < b[1] \/ (a[1] = b[1] /\ a[2] < b[2])

\* FirstOccurrences keeping every row of the join
KeepAllOccurrences(joined_voronoi) == joined_voronoi
\* The deduplication keeping the last occurrence of every index value.
LastOccurrences(joined_voronoi) ==
    LET n == Len(joined_voronoi.rows)
        idx == [k \in 1..n |-> joined_voronoi.rows[k].index]
        uniq == SortSeq(Dedup(idx), IndexLess)
        indexes == [u \in 1..Len(uniq) |->
                      CHOOSE k \in 1..n : idx[k] = uniq[u] /\ \A m \in (k + 1)..n : idx[m] # uniq[u]]
    IN [crs |-> joined_voronoi.crs,
        rows |-> [u \in 1..Len(indexes) |-> joined_voronoi.rows[indexes[u]]]]

\* lines 906-907: np.unique(index, return_index=True), the position of the
\* first occurrence of every index value in sorted order, and iloc
FirstOccurrences(joined_voronoi) ==
    LET n == Len(joined_voronoi.rows)
        idx == [k \in 1..n |-> joined_voronoi.rows[k].index]
        uniq == SortSeq(Dedup(idx), IndexLess)
        indexes == [u \in 1..Len(uniq) |->
                      CHOOSE k \in 1..n : idx[k] = uniq[u] /\ \A m \in 1..(k - 1) : idx[m] # uniq[u]]
    IN [crs |-> joined_voronoi.crs,
        rows |-> [u \in 1..Len(indexes) |-> joined_voronoi.rows[indexes[u]]]]

\* The dissolve making a group of the rows of index_left NaN too
\* (dropna=False).
DissolveKeepingNaN(unique_voronoi) ==
    LET rows == unique_voronoi.rows
        Lt(a, b) == a # NaN /\ (b = NaN \/ a < b)
        sorted == SortSeq(Dedup([k \in 1..Len(rows) |-> rows[k].index_left]), Lt)
    IN [crs |-> unique_voronoi.crs,
        rows |-> [g \in 1..Len(sorted) |->
                    [index |-> sorted[g],
                     geometry |-> UNION {rows[k].geometry :
                                           k \in {m \in 1..Len(rows) : rows[m].index_left = sorted[g]}}]]]

\* line 917, dissolve(by="index_left"): one row per value of index_left in
\* sorted order, the rows of index_left NaN dropped, the geometries of a
\* group merged
DissolveByIndexLeft(unique_voronoi) ==
    LET rows == unique_voronoi.rows
        keys == {rows[k].index_left : k \in 1..Len(rows)} \ {NaN}
        Lt(a, b) == a < b
        sorted == SortSeq(Dedup(SelectSeq([k \in 1..Len(rows) |-> rows[k].index_left],
                                          LAMBDA x : x \in keys)), Lt)
    IN [crs |-> unique_voronoi.crs,
        rows |-> [g \in 1..Len(sorted) |->
                    [index |-> sorted[g],
                     geometry |-> UNION {rows[k].geometry :
                                           k \in {m \in 1..Len(rows) : rows[m].index_left = sorted[g]}}]]]

(* ---------------- buffer_without_overlap as a function ---------------- *)
\* lines 853-868: the working frame, in the local UTM if metric
Projected(ds, metric) == IF metric THEN to_crs(ds, LocalUtmEpsg(ds)) ELSE ds

\* Reprojected without the reprojection
NotReprojected(merged_voronoi, crs, metric) == merged_voronoi

\* lines 927-931: back to the CRS of the vector if metric
Reprojected(merged_voronoi, crs, metric) ==
    IF metric THEN to_crs_rows(merged_voronoi, crs) ELSE merged_voronoi

\* lines 853-931 with plot=False, the spatial index giving the geometries
\* in the order `order'
buffer_without_overlap(ds, buffer_size, metric, order) ==
    LET gdf == Projected(ds, metric)
        buffer == BufferBand(gdf, buffer_size)
        bound_poly == BoundPoly(gdf, buffer_size)
        voronoi_all == generate_voronoi_with_bounds(gdf, bound_poly)
    IN IF voronoi_all.raised # "" THEN voronoi_all
       ELSE LET voronoi_gdf == ExplodeIn(voronoi_all.value, buffer)
                joined_voronoi == sjoin(gdf, voronoi_gdf, order)
                unique_voronoi == FirstOccurrences(joined_voronoi)
                merged_voronoi == DissolveByIndexLeft(unique_voronoi)
            IN Return(Reprojected(merged_voronoi, ds.crs, metric))

\* lines 780-806: every geometry buffered in the local UTM, and back
buffer_metric(ds, buffer_size) ==
    LET ds_utm == to_crs(ds, LocalUtmEpsg(ds))
        window == Window(TotalBounds(ds_utm), buffer_size)
        ds_buffered == [crs |-> ds_utm.crs,
                        rows |-> [k \in 1..Len(ds_utm.geometry) |->
                                    [index |-> k,
                                     geometry |-> BufferOf(Range(ds_utm.geometry[k].geoms),
                                                           window, buffer_size)]]]
    IN to_crs_rows(ds_buffered, ds.crs)

(* ------------------------- Python values ------------------------------ *)
\* the Python value None
None == [type |-> "NoneType"]
\* gpd.read_file: a geodataframe of the geometries c under a RangeIndex
GeoDataFrame(crs, c) == [crs |-> crs, geometry |-> c, index |-> [k \in 1..Len(c) |-> k - 1]]
\* lines 49-70, Vector(gdf): self._ds = gdf
Vector(gdf) == [type |-> "Vector", ds |-> gdf]
\* what a method call leaves: the exception raised ("": none), the value
\* returned and self._ds
Outcome(raised, value, ds) == [raised |-> raised, value |-> value, ds |-> ds]

AttributeError == "AttributeError: 'NoneType' object has no attribute"
TypeErrorCrop == "TypeError: Crop geometry must be a Raster, Vector, or list of coordinates."

\* the rows of a geodataframe at the positions K (a sequence), under
\* their labels
Rows(df, K) ==
    [df EXCEPT !.geometry = [j \in 1..Len(K) |-> df.geometry[K[j]]],
               !.index = [j \in 1..Len(K) |-> df.index[K[j]]]]

\* the positions of the rows of df that satisfy Keep, in order
Positions(df, Keep(_)) == SelectSeq([k \in 1..Len(df.geometry) |-> k], Keep)

(* --------------------------- Vector.query ----------------------------- *)
\* the expressions handed to query, and pandas' evaluation of them on a
\* row of label `label'
Expressions == {"index >= 1", "index < 1"}
Eval(expression, label) ==
    IF expression = "index >= 1" THEN label >= 1 ELSE label < 1

\* DataFrame.query(expression): the rows that satisfy the expression
DataFrameQuery(df, expression) ==
    Rows(df, Positions(df, LAMBDA k : Eval(expression, df.index[k])))

\* lines 696-712.  DataFrame.query(expression, inplace=True) updates the
\* dataframe it is called on and returns None, which line 707 stores in
\* self._ds.
query(ds, expression, inplace) ==
    IF ds = None THEN Outcome(AttributeError, None, ds)
    ELSE IF inplace THEN Outcome("", None, None)
    ELSE Outcome("", Vector(DataFrameQuery(ds, expression)), ds)

(* ---------------------------- Vector.crop ----------------------------- *)
\* the closed boxes a and b share a point; their intersection
BoxesMeet(a, b) == a.x0 <= b.x1 /\ b.x0 <= a.x1 /\ a.y0 <= b.y1 /\ b.y0 <= a.y1
ClipBox(a, b) ==
    Box(Max(a.x0, b.x0), Max(a.y0, b.y0),
        IF a.x1 <= b.x1 THEN a.x1 ELSE b.x1, IF a.y1 <= b.y1 THEN a.y1 ELSE b.y1)

\* the exterior ring of a polygon from the boxes that tile it: one box, or
\* a box on top of a wider box, flush on the left
RingOf(tiles) ==
    IF Len(tiles) = 1 THEN Coords(tiles[1])
    ELSE LET t == tiles[1]
             b == tiles[2]
         IN IF t.x1 = b.x1 THEN Coords(Box(b.x0, b.y0, b.x1, t.y1))
            ELSE << <<b.x0, b.y0>>, <<b.x1, b.y0>>, <<b.x1, b.y1>>, <<t.x1, t.y0>>,
                    <<t.x1, t.y1>>, <<t.x0, t.y1>>, <<b.x0, b.y0>> >>

\* the intersection of a geometry with a box that meets it: the parts that
\* meet the box, cut to it; a multi-part geometry left with one part is a
\* single-part geometry
ClipGeom(g, b) ==
    LET parts == SelectSeq([k \in 1..Len(g.geoms) |->
                               IF BoxesMeet(g.geoms[k], b) THEN ClipBox(g.geoms[k], b)
                               ELSE Box(0, 0, -1, -1)],
                           LAMBDA c : c.x0 <= c.x1)
        kind == IF Len(parts) = 1 /\ g.geom_type = "MultiPolygon" THEN "Polygon"
                ELSE IF Len(parts) = 1 /\ g.geom_type = "MultiLineString" THEN "LineString"
                ELSE g.geom_type
    IN [geom_type |-> kind, geoms |-> parts,
        exterior |-> IF kind = "Polygon" THEN RingOf(parts) ELSE <<>>]

\* gdf.cx[xmin:xmax, ymin:ymax]: the rows whose geometry meets the box
cx(df, b) ==
    Rows(df, Positions(df, LAMBDA k : \E j \in 1..Len(df.geometry[k].geoms) :
                                           BoxesMeet(df.geometry[k].geoms[j], b)))

\* gdf.clip(mask=(xmin, ymin, xmax, ymax)): those rows, each cut to the box
clip(df, b) ==
    LET sub == cx(df, b)
    IN [sub EXCEPT !.geometry = [k \in 1..Len(sub.geometry) |-> ClipGeom(sub.geometry[k], b)]]

\* rio.transform.from_bounds: origin at the upper left, pixel sizes as
\* fractions <<numerator, denominator>>
from_bounds(left, bottom, right, top, width, height) ==
    [c |-> left, f |-> top, a |-> <<right - left, width>>, e |-> <<bottom - top, height>>]

\* gu.Raster.from_array: a raster of the shape of its data
from_array(kind, data, transform, crs) ==
    [type |-> kind, shape |-> data.shape, data |-> data.values, transform |-> transform, crs |-> crs]

\* the bounds of a raster, from its transform and shape (rows, columns)
RasterBoundsOf(r) ==
    LET t == r.transform
    IN Box(t.c, t.f + (t.e[1] * r.shape[1]) \div t.e[2],
           t.c + (t.a[1] * r.shape[2]) \div t.a[2], t.f)

\* geoutils.projtools._get_bounds_projected on the bounds of a Raster or
\* Vector
get_bounds_projected(ref, out_crs) ==
    LET bounds == IF ref.type = "Vector" THEN TotalBounds(ref.ds) ELSE RasterBoundsOf(ref)
        crs == IF ref.type = "Vector" THEN ref.ds.crs ELSE ref.crs
    IN Shift(bounds, Easting0(crs) - Easting0(out_crs))

\* crop without the copy: the new vector shares self
CropCopyFree(ds, crop_geom, clip_, inplace) ==
    IF crop_geom.type \notin {"Raster", "Vector", "list", "tuple"}
    THEN Outcome(TypeErrorCrop, None, ds)
    ELSE IF ds = None THEN Outcome(AttributeError, None, ds)
    ELSE LET b == IF crop_geom.type \in {"Raster", "Vector"}
                  THEN get_bounds_projected(crop_geom, ds.crs)
                  ELSE Box(crop_geom.items[1], crop_geom.items[2],
                           crop_geom.items[3], crop_geom.items[4])
             cropped == IF clip_ THEN clip(cx(ds, b), b) ELSE cx(ds, b)
         IN IF inplace THEN Outcome("", None, cropped)
            ELSE Outcome("", Vector(cropped), cropped)

\* lines 329-365
crop(ds, crop_geom, clip_, inplace) ==
    IF crop_geom.type \in {"Raster", "Vector"} /\ ds = None
    THEN Outcome(AttributeError, None, ds)
    ELSE IF crop_geom.type \notin {"Raster", "Vector", "list", "tuple"}
    THEN Outcome(TypeErrorCrop, None, ds)
    ELSE IF ds = None THEN Outcome(AttributeError, None, ds)
    ELSE LET b == IF crop_geom.type \in {"Raster", "Vector"}
                  THEN get_bounds_projected(crop_geom, ds.crs)
                  ELSE Box(crop_geom.items[1], crop_geom.items[2],
                           crop_geom.items[3], crop_geom.items[4])
             cropped == IF clip_ THEN clip(cx(ds, b), b) ELSE cx(ds, b)
         IN IF inplace THEN Outcome("", None, cropped)
            ELSE Outcome("", Vector(cropped), ds)

\* lines 119-124
getitem(ds, value) == crop(ds, value, FALSE, FALSE)

(* -------------------------- Vector.reproject -------------------------- *)
UTM31 == 32631

\* georeferenced objects handed to the methods as references: a vector
\* and a raster in UTM 31, over the same ground
RefVector == Vector(GeoDataFrame(UTM31, <<Geom("Polygon", <<Box(500, 125, 600, 225)>>)>>))
RefRaster ==
    from_array("Raster", [shape |-> <<4, 4>>, values |-> [fill |-> 0, burned |-> <<>>]],
               from_bounds(500, 125, 600, 225, 4, 4), UTM31)

\* the files on disk, by path: what rasterio or fiona opens there
Files == [p \in {"raster.tif", "vector.shp", "notes.txt"} |->
            IF p = "raster.tif" THEN RefRaster
            ELSE IF p = "vector.shp" THEN RefVector
            ELSE None]

\* the messages of the exceptions (quotation marks left out)
ValueErrorEither == "ValueError: Either of dst_ref or dst_crs must be set. Not both."
ValueErrorPath == "ValueError: Reference raster or vector path does not exist."
ValueErrorOpen == "ValueError: Could not open raster or vector with rasterio or fiona."
TypeErrorRef == "TypeError: Type of dst_ref must be string path to file, Raster or Vector."
CRSError == "CRSError"

\* the crs attribute of a reference
CrsOf(ref) == IF ref.type \in {"Vector"} THEN ref.ds.crs ELSE ref.crs

\* lines 393-421: the target CRS from dst_ref or dst_crs, and the new
\* Vector
ReprojectTo(ds, dst_ref, dst_crs) ==
    IF dst_ref # None
    THEN IF dst_ref.type \in {"Raster", "Vector", "DatasetReader", "GeoDataFrame"}
         THEN IF ds = None THEN Outcome(AttributeError, None, ds)
              ELSE Outcome("", Vector(to_crs(ds, CrsOf(dst_ref))), ds)
         ELSE IF dst_ref.type = "str"
         THEN IF dst_ref.str \notin DOMAIN Files THEN Outcome(ValueErrorPath, None, ds)
              ELSE IF Files[dst_ref.str] = None THEN Outcome(ValueErrorOpen, None, ds)
              ELSE IF ds = None THEN Outcome(AttributeError, None, ds)
              ELSE Outcome("", Vector(to_crs(ds, CrsOf(Files[dst_ref.str]))), ds)
         ELSE Outcome(TypeErrorRef, None, ds)
    ELSE IF dst_crs.type # "int" THEN Outcome(CRSError, None, ds)
    ELSE IF ds = None THEN Outcome(AttributeError, None, ds)
    ELSE Outcome("", Vector(to_crs(ds, dst_crs.value)), ds)

\* reproject without the test of lines 390-391
ReprojectUnchecked(ds, dst_ref, dst_crs) == ReprojectTo(ds, dst_ref, dst_crs)

\* lines 367-421
reproject(ds, dst_ref, dst_crs) ==
    IF (dst_ref # None /\ dst_crs # None) \/ (dst_ref = None /\ dst_crs = None)
    THEN Outcome(ValueErrorEither, None, ds)
    ELSE ReprojectTo(ds, dst_ref, dst_crs)

(* -------------------------- Vector.rasterize -------------------------- *)
ValueErrorOnlyOne == "ValueError: Only one of rst or crs can be provided."
ValueErrorXres == "ValueError: At least rst or xres must be set."
ValueErrorLength == "ValueError: in_value must have same length as self.ds.geometry"
ValueErrorInValue == "ValueError: in_value must be a single number or an iterable with same length as self.ds.geometry"
\* raised by numpy and rasterio
ValueErrorNaN == "ValueError: cannot convert float NaN to integer"
ValueErrorNoShapes == "ValueError: No valid geometry objects found for rasterize"
ValueErrorShape == "ValueError: width and height must be > 0"
ZeroDivisionError == "ZeroDivisionError"

\* the types of numbers.Number, and of collections.abc.Iterable
Numbers == {"int", "float"}
\* the iterables without the index of a dataframe
ListsAndTuples == {"list", "tuple"}
Iterables == {"list", "tuple", "Index"}

Abs(x) == IF x >= 0 THEN x ELSE -x

\* int(np.round(num / den)) for num >= 0 and den > 0: to the nearest
\* integer, a half to the even one
Round(num, den) ==
    LET q == num \div den
        r == num % den
    IN IF 2 * r < den THEN q
       ELSE IF 2 * r > den THEN q + 1
       ELSE IF q % 2 = 0 THEN q ELSE q + 1

\* lines 621-634: shape and transform of the grid over bounds (a box) at
\* the resolution xres, yres
GridOf(b, xres, yres) ==
    LET width == Round(Abs(b.x1 - b.x0), xres)
        height == Round(Abs(b.y1 - b.y0), yres)
    IN [out_shape |-> <<height, width>>,
        transform |-> from_bounds(b.x0, b.y0, b.x1, b.y1, width, height)]

\* rasterio.features.rasterize of (geometry, value) pairs on a grid
features_rasterize(shapes, fill, out_shape) ==
    [shape |-> out_shape, values |-> [fill |-> fill, burned |-> shapes]]

\* line 643: in_value = self.ds.index + 1
DefaultInValue(ds) == [type |-> "Index", items |-> [k \in 1..Len(ds.index) |-> ds.index[k] + 1]]

\* lines 578-673
rasterize(ds, rst, crs, xres, yres, bounds, in_value, out_value) ==
    IF rst # None /\ crs # None THEN Outcome(ValueErrorOnlyOne, None, ds)
    ELSE IF ds = None THEN Outcome(AttributeError, None, ds)
    ELSE
    LET crs1 == IF rst # None THEN rst.crs ELSE IF crs = None THEN ds.crs ELSE crs.value
        vect == to_crs(ds, crs1)
        n == Len(vect.geometry)
    IN
    IF rst = None /\ xres = None THEN Outcome(ValueErrorXres, None, ds)
    ELSE IF rst = None /\ bounds = None /\ n = 0 THEN Outcome(ValueErrorNaN, None, ds)
    ELSE
    LET grid == IF rst # None THEN [out_shape |-> rst.shape, transform |-> rst.transform]
                ELSE GridOf(IF bounds = None THEN TotalBounds(vect)
                            ELSE Box(bounds.items[1], bounds.items[2],
                                     bounds.items[3], bounds.items[4]),
                            xres.value, IF yres = None THEN xres.value ELSE yres.value)
        values == IF in_value = None THEN DefaultInValue(ds) ELSE in_value
        Burnt(shapes) ==
            IF shapes = <<>> THEN Outcome(ValueErrorNoShapes, None, ds)
            ELSE IF grid.out_shape[1] = 0 \/ grid.out_shape[2] = 0
            THEN Outcome(ValueErrorShape, None, ds)
            ELSE Outcome("",
                         from_array(IF values.type \in Numbers /\ values.value = 1
                                    THEN "Mask" ELSE "Raster",
                                    features_rasterize(shapes, out_value, grid.out_shape),
                                    grid.transform, crs1),
                         ds)
    IN
    IF rst = None /\ bounds # None /\ (grid.out_shape[1] = 0 \/ grid.out_shape[2] = 0)
    THEN Outcome(ZeroDivisionError, None, ds)
    ELSE IF values.type \in Iterables
    THEN IF Len(values.items) # n THEN Outcome(ValueErrorLength, None, ds)
         ELSE Burnt([k \in 1..n |-> [geometry |-> vect.geometry[k], value |-> values.items[k]]])
    ELSE IF values.type \in Numbers
    THEN Burnt([k \in 1..n |-> [geometry |-> vect.geometry[k], value |-> values.value]])
    ELSE Outcome(ValueErrorInValue, None, ds)

(* ------------------------- Vector.create_mask ------------------------- *)
TypeErrorRaster == "TypeError: Raster must be a geoutils.Raster or None."
TypeErrorBuffer == "TypeError: Buffer must be a number."

\* lines 501-516: shape and transform of the grid over bounds (a box) at
\* the resolution xres, yres
MaskGridOf(b, xres, yres) ==
    LET height == Round(Abs(b.x1 - b.x0), xres)
        width == Round(Abs(b.y1 - b.y0), yres)
    IN [out_shape |-> <<height, width>>,
        transform |-> from_bounds(b.x0, b.y0, b.x1, b.y1, width, height)]

\* geom.buffer(buffer): the geometry, and the distance it is widened by
Buffered(geom, distance) == geom @@ [buffer |-> distance]

\* lines 483-559: what the call leaves, were self.ds as it is on entry,
\* and the frame gdf the steps of lines 527-542 work on (self.ds where
\* the call ends before them)
MaskOf(ds, rst, crs, xres, yres, bounds, buffer_, as_array) ==
    LET Left(out, gdf) == [outcome |-> out, gdf |-> gdf]
    IN
    IF rst = None /\ xres = None THEN Left(Outcome(ValueErrorXres, None, ds), ds)
    ELSE IF rst # None /\ rst.type # "Raster" THEN Left(Outcome(TypeErrorRaster, None, ds), ds)
    ELSE IF ds = None THEN Left(Outcome(AttributeError, None, ds), ds)
    ELSE IF rst = None /\ bounds = None /\ Len(ds.geometry) = 0
    THEN Left(Outcome(ValueErrorNaN, None, ds), ds)
    ELSE
    LET crs1 == IF rst # None THEN rst.crs ELSE IF crs = None THEN ds.crs ELSE crs.value
        b == IF rst # None THEN RasterBoundsOf(rst)
             ELSE IF bounds = None THEN TotalBounds(ds)
             ELSE Box(bounds.items[1], bounds.items[2], bounds.items[3], bounds.items[4])
        grid == IF rst # None THEN [out_shape |-> rst.shape, transform |-> rst.transform]
                ELSE MaskGridOf(b, xres.value, IF yres = None THEN xres.value ELSE yres.value)
        \* lines 531-536: cropped and reprojected
        cropped == to_crs(cx(ds, Shift(b, Easting0(crs1) - Easting0(ds.crs))), crs1)
        n == Len(cropped.geometry)
        \* lines 541-542
        gdf == IF buffer_.type \in Numbers /\ buffer_.value # 0
               THEN [cropped EXCEPT !.geometry = [k \in 1..n |-> Buffered(@[k], buffer_.value)]]
               ELSE cropped
        shapes == [k \in 1..n |-> [geometry |-> gdf.geometry[k], value |-> 1]]
        mask == features_rasterize(shapes, 0, grid.out_shape)
    IN
    IF rst = None /\ bounds # None /\ (grid.out_shape[1] = 0 \/ grid.out_shape[2] = 0)
    THEN Left(Outcome(ZeroDivisionError, None, ds), ds)
    ELSE IF buffer_.type \notin Numbers THEN Left(Outcome(TypeErrorBuffer, None, ds), cropped)
    ELSE IF shapes = <<>> THEN Left(Outcome(ValueErrorNoShapes, None, ds), gdf)
    ELSE IF grid.out_shape[1] = 0 \/ grid.out_shape[2] = 0
    THEN Left(Outcome(ValueErrorShape, None, ds), gdf)
    ELSE IF as_array
    THEN Left(Outcome("", [type |-> "ndarray", shape |-> mask.shape, data |-> mask.values], ds), gdf)
    ELSE Left(Outcome("", from_array("Raster", mask, grid.transform, crs1), ds), gdf)

\* create_mask working on self.ds itself and not on a copy of it.
CreateMaskInPlace(ds, rst, crs, xres, yres, bounds, buffer_, as_array) ==
    LET left == MaskOf(ds, rst, crs, xres, yres, bounds, buffer_, as_array)
    IN [left.outcome EXCEPT !.ds = left.gdf]

\* lines 451-559: line 528 copies self.ds, which is left as it is
create_mask(ds, rst, crs, xres, yres, bounds, buffer_, as_array) ==
    MaskOf(ds, rst, crs, xres, yres, bounds, buffer_, as_array).outcome

(* -------------------------- Vector.proximity -------------------------- *)
\* np.zeros(shape)
zeros(shape) == [shape |-> shape, values |-> [fill |-> 0, burned |-> <<>>]]

\* lines 714-765.  The distances themselves are computed by
\* geoutils.raster.raster.proximity_from_vector_or_raster, which rasterizes
\* the geometries of the vector, on the grid of the raster.
proximity(ds, raster, grid_size) ==
    IF ds = None THEN Outcome(AttributeError, None, ds)
    ELSE IF Len(ds.geometry) = 0 THEN Outcome(ValueErrorNoShapes, None, ds)
    ELSE LET b == TotalBounds(ds)
             grid == IF raster # None THEN raster
                     ELSE from_array("Raster", zeros(<<1000, 1000>>),
                                     from_bounds(b.x0, b.y0, b.x1, b.y1, grid_size[1], grid_size[2]),
                                     ds.crs)
         IN Outcome("", [grid EXCEPT !.data = [distance_to |-> ds.geometry]], ds)

(* ------------------------- version numbers ---------------------------- *)
\* A string is the sequence of its characters.
Digits == <<"0", "1", "2", "3", "4", "5", "6", "7", "8", "9">>
IsDigit(c) == c \in Range(Digits)
DigitOf(c) == (CHOOSE d \in 1..10 : Digits[d] = c) - 1
\* the code point of a character of a version string
Ord(c) == IF c = "." THEN 46 ELSE IF IsDigit(c) THEN 48 + DigitOf(c) ELSE 100

RECURSIVE str(_)
\* str(n) of an integer n >= 0
str(n) == IF n < 10 THEN <<Digits[n + 1]>> ELSE Append(str(n \div 10), Digits[(n % 10) + 1])

RECURSIVE join(_)
\* ".".join(parts)
join(parts) ==
    IF Len(parts) = 0 THEN <<>>
    ELSE IF Len(parts) = 1 THEN parts[1]
    ELSE parts[1] \o <<".">> \o join(Tail(parts))

RECURSIVE split(_, _)
\* s.split("."), cur being the part read so far
split(s, cur) ==
    IF s = <<>> THEN <<cur>>
    ELSE IF Head(s) = "." THEN <<cur>> \o split(Tail(s), <<>>)
    ELSE split(Tail(s), Append(cur, Head(s)))

RECURSIVE int(_)
\* int(s) of a string of digits
int(s) == IF s = <<>> THEN 0 ELSE 10 * int(SubSeq(s, 1, Len(s) - 1)) + DigitOf(s[Len(s)])

RECURSIVE Release(_)
\* the leading numeric parts of the parts of a version string
Release(parts) ==
    IF parts = <<>> \/ parts[1] = <<>> \/ \E k \in 1..Len(parts[1]) : ~IsDigit(parts[1][k])
    THEN <<>>
    ELSE <<int(parts[1])>> \o Release(Tail(parts))

\* packaging.version.Version(s): the release of the version, as numbers
Version(s) == Release(split(s, <<>>))
\* Version.base_version: the release alone, as a string
base_version(v) == join([k \in 1..Len(v) |-> str(v[k])])

RECURSIVE Greater(_, _)
\* a > b for tuples of numbers compared element by element, a longer
\* tuple being greater than its prefix
Greater(a, b) ==
    IF a = <<>> THEN FALSE
    ELSE IF b = <<>> THEN TRUE
    ELSE IF Head(a) # Head(b) THEN Head(a) > Head(b)
    ELSE Greater(Tail(a), Tail(b))

\* Version.__gt__: the releases compared as tuples of numbers
VersionGreater(a, b) == Greater(a, b)
\* str.__gt__: the strings compared character by character
StringGreater(a, b) == Greater([k \in 1..Len(a) |-> Ord(a[k])], [k \in 1..Len(b) |-> Ord(b[k])])

\* the release a.b.c written as a version string
VersionString(release) == join([k \in 1..Len(release) |-> str(release[k])])
PackageVersion == VersionString(<<0, 0, 9>>)
\* the values of geoutils.__version__ tried: releases around a change of
\* the number of digits, and one development version
PackageVersions ==
    {VersionString(r) : r \in {<<0, 0, 8>>, <<0, 0, 9>>, <<0, 0, 10>>, <<0, 1, 0>>, <<0, 10, 0>>, <<1, 9, 99>>}}
        \cup {VersionString(<<0, 0, 9>>) \o <<".", "d", "e", "v", "3">>}

(* ------------------------------- state -------------------------------- *)
VARIABLES
    ds,              \* self.ds: [crs, geometry], the vector's geodataframe
    pc,              \* position in the call
    buffer_size, metric, plot,   \* the arguments of the call
    i, vertices,     \* extract_vertices: position of its loop, its list
    epsg,            \* EPSG code of the local UTM (0: none computed)
    gdf, buffer, bound_poly, voronoi, voronoi_all, voronoi_gdf,
    order,           \* order in which the spatial index gives the geometries
    joined_voronoi, unique_voronoi, merged_voronoi,
    plots,           \* titles of the panels drawn so far
    ret,             \* the Vector returned (its ds)
    err,             \* the exception raised ("": none)
    call,            \* the last call of a method of the vector, with its arguments
    old,             \* self.ds before that call
    version,         \* geoutils.__version__
    warned,          \* the warnings the last call emitted
    stdout           \* the lines the last call printed

args == <<buffer_size, metric, plot>>
frames == <<gdf, buffer, bound_poly, voronoi, voronoi_all, voronoi_gdf, order,
            joined_voronoi, unique_voronoi, merged_voronoi>>
self == <<ds, call, old>>
io == <<version, warned, stdout>>
vars == <<self, io, pc, args, i, vertices, epsg, frames, plots, ret, err>>

NoFrame == [crs |-> 0, rows |-> <<>>]

\* the collections of 1..MaxGeoms geometries of the catalogue
Collections == UNION {[1..n -> Catalogue] : n \in 1..MaxGeoms}
BufferSizes == {25 * k : k \in 1..MaxBuffer}

Init ==
    /\ ds \in {GeoDataFrame(WGS84, c) : c \in Collections}
    /\ call = None /\ old = None
    /\ version = PackageVersion /\ warned = <<>> /\ stdout = <<>>
    /\ pc = "idle"
    /\ buffer_size = 0 /\ metric = FALSE /\ plot = FALSE
    /\ i = 0 /\ vertices = <<>>
    /\ epsg = 0
    /\ gdf = [crs |-> 0, geometry |-> <<>>]
    /\ buffer = {} /\ bound_poly = {}
    /\ voronoi = NoFrame /\ voronoi_all = NoFrame /\ voronoi_gdf = NoFrame
    /\ order = <<>>
    /\ joined_voronoi = NoFrame /\ unique_voronoi = NoFrame /\ merged_voronoi = NoFrame
    /\ plots = <<>>
    /\ ret = NoFrame
    /\ err = ""

(* ---------------------- Vector.buffer_metric --------------------------- *)
\* lines 767-806
BufferMetric ==
    /\ pc = "idle"
    /\ \E size \in BufferSizes :
        /\ buffer_size' = size
        /\ epsg' = LocalUtmEpsg(ds)
        /\ ret' = buffer_metric(ds, size)
    /\ pc' = "buffered"
    /\ UNCHANGED <<self, io, metric, plot, i, vertices, frames, plots, err>>

(* ------------------ Vector.buffer_without_overlap --------------------- *)
\* line 822: the call, with its arguments
Call ==
    /\ pc = "idle"
    /\ buffer_size' \in BufferSizes
    /\ metric' \in BOOLEAN
    /\ plot' \in BOOLEAN
    /\ pc' = "project"
    /\ UNCHANGED <<self, io, i, vertices, epsg, frames, plots, ret, err>>

\* lines 853-868
Project ==
    /\ pc = "project"
    /\ epsg' = IF metric THEN LocalUtmEpsg(ds) ELSE epsg
    /\ gdf' = Projected(ds, metric)
    /\ pc' = "band"
    /\ UNCHANGED <<self, io, args, i, vertices, buffer, bound_poly, voronoi, voronoi_all,
                   voronoi_gdf, order, joined_voronoi, unique_voronoi, merged_voronoi,
                   plots, ret, err>>

\* lines 870-881
Band ==
    /\ pc = "band"
    /\ buffer' = BufferBand(gdf, buffer_size)
    /\ bound_poly' = BoundPoly(gdf, buffer_size)
    /\ i' = 1
    /\ vertices' = <<>>
    /\ pc' = "extract"
    /\ UNCHANGED <<self, io, args, epsg, gdf, voronoi, voronoi_all, voronoi_gdf, order,
                   joined_voronoi, unique_voronoi, merged_voronoi, plots, ret, err>>

\* lines 950-963: one turn of the loop of extract_vertices
ExtractGeom ==
    /\ pc = "extract"
    /\ i <= Len(gdf.geometry)
    /\ LET e == Exteriors(gdf.geometry[i])
       IN IF e.raised # ""
          THEN /\ err' = e.raised
               /\ pc' = "raised"
               /\ UNCHANGED <<i, vertices>>
          ELSE /\ vertices' = vertices \o e.value
               /\ i' = i + 1
               /\ UNCHANGED <<pc, err>>
    /\ UNCHANGED <<self, io, args, epsg, frames, plots, ret>>

\* lines 965 and 979-993: extract_vertices returns, the Voronoi polygons
\* are built
VoronoiPolygons ==
    /\ pc = "extract"
    /\ i > Len(gdf.geometry)
    /\ LET v == VoronoiPolygonsOf(gdf.crs, vertices)
       IN IF v.raised # ""
          THEN /\ err' = v.raised
               /\ pc' = "raised"
               /\ UNCHANGED voronoi
          ELSE /\ voronoi' = v.value
               /\ pc' = "bounds"
               /\ UNCHANGED err
    /\ UNCHANGED <<self, io, args, i, vertices, epsg, gdf, buffer, bound_poly, voronoi_all,
                   voronoi_gdf, order, joined_voronoi, unique_voronoi, merged_voronoi,
                   plots, ret>>

\* lines 1012-1032
VoronoiWithBounds ==
    /\ pc = "bounds"
    /\ voronoi_all' = VoronoiWithBoundsOf(gdf, voronoi, bound_poly)
    /\ pc' = IF plot THEN "plot1" ELSE "join"
    /\ UNCHANGED <<self, io, args, i, vertices, epsg, gdf, buffer, bound_poly, voronoi,
                   voronoi_gdf, order, joined_voronoi, unique_voronoi, merged_voronoi,
                   plots, ret, err>>

\* lines 883-888
Plot1 ==
    /\ pc = "plot1"
    /\ plots' = Append(plots, "Voronoi polygons, cropped")
    /\ pc' = "join"
    /\ UNCHANGED <<self, io, args, i, vertices, epsg, frames, ret, err>>

\* lines 890-896
Join ==
    /\ pc = "join"
    /\ order' \in Perms(1..Len(gdf.geometry))
    /\ voronoi_gdf' = ExplodeIn(voronoi_all, buffer)
    /\ joined_voronoi' = sjoin(gdf, voronoi_gdf', order')
    /\ pc' = IF plot THEN "plot2" ELSE "unique"
    /\ UNCHANGED <<self, io, args, i, vertices, epsg, gdf, buffer, bound_poly, voronoi,
                   voronoi_all, unique_voronoi, merged_voronoi, plots, ret, err>>

\* Plot2 with the plot by column "index_left" sorting the frame in place
Plot2Sorting ==
    /\ pc = "plot2"
    /\ plots' = Append(plots, "Buffer with duplicated polygons")
    /\ joined_voronoi' = [joined_voronoi EXCEPT
                            !.rows = SortSeq(@, LAMBDA a, b : a.index_left < b.index_left)]
    /\ pc' = "unique"
    /\ UNCHANGED <<self, io, args, i, vertices, epsg, gdf, buffer, bound_poly, voronoi,
                   voronoi_all, voronoi_gdf, order, unique_voronoi, merged_voronoi, ret, err>>

\* lines 898-903
Plot2 ==
    /\ pc = "plot2"
    /\ plots' = Append(plots, "Buffer with duplicated polygons")
    /\ pc' = "unique"
    /\ UNCHANGED <<self, io, args, i, vertices, epsg, frames, ret, err>>

\* lines 905-907
Unique ==
    /\ pc = "unique"
    /\ unique_voronoi' = FirstOccurrences(joined_voronoi)
    /\ pc' = IF plot THEN "plot3" ELSE "dissolve"
    /\ UNCHANGED <<self, io, args, i, vertices, epsg, gdf, buffer, bound_poly, voronoi,
                   voronoi_all, voronoi_gdf, order, joined_voronoi, merged_voronoi,
                   plots, ret, err>>

\* lines 909-914
Plot3 ==
    /\ pc = "plot3"
    /\ plots' = Append(plots, "Buffer with unique polygons")
    /\ pc' = "dissolve"
    /\ UNCHANGED <<self, io, args, i, vertices, epsg, frames, ret, err>>

\* lines 916-917
Dissolve ==
    /\ pc = "dissolve"
    /\ merged_voronoi' = DissolveByIndexLeft(unique_voronoi)
    /\ pc' = IF plot THEN "plot4" ELSE "return"
    /\ UNCHANGED <<self, io, args, i, vertices, epsg, gdf, buffer, bound_poly, voronoi,
                   voronoi_all, voronoi_gdf, order, joined_voronoi, unique_voronoi,
                   plots, ret, err>>

\* lines 919-925
Plot4 ==
    /\ pc = "plot4"
    /\ plots' = Append(plots, "Final buffer")
    /\ pc' = "return"
    /\ UNCHANGED <<self, io, args, i, vertices, epsg, frames, ret, err>>

\* lines 927-931
ReturnVector ==
    /\ pc = "return"
    /\ ret' = Reprojected(merged_voronoi, ds.crs, metric)
    /\ pc' = "done"
    /\ UNCHANGED <<self, io, args, i, vertices, epsg, frames, plots, err>>

(* ------------------- generate_voronoi_with_bounds --------------------- *)
\* the bounding polygons a caller hands to generate_voronoi_with_bounds: a
\* pixel next to the reflex vertex of EL, and the square around the squares
BoundPolys == {RegionOf({b}, Window(b, 0)) : b \in {Box(150, 150, 175, 175), Box(100, 100, 200, 200)}}

\* lines 996-1032: generate_voronoi_with_bounds(self.ds, bound_poly) called
\* on its own
GenerateVoronoiWithBounds ==
    /\ pc = "idle"
    /\ gdf' = ds
    /\ bound_poly' \in BoundPolys
    /\ LET v == generate_voronoi_polygons(ds)
           r == generate_voronoi_with_bounds(ds, bound_poly')
       IN IF r.raised # ""
          THEN /\ err' = r.raised
               /\ pc' = "raised"
               /\ UNCHANGED <<voronoi, voronoi_all>>
          ELSE /\ voronoi' = v.value
               /\ voronoi_all' = r.value
               /\ pc' = "bounded"
               /\ UNCHANGED err
    /\ UNCHANGED <<self, io, args, i, vertices, epsg, buffer, voronoi_gdf, order,
                   joined_voronoi, unique_voronoi, merged_voronoi, plots, ret>>

Next ==
    \/ GenerateVoronoiWithBounds
    \/ BufferMetric
    \/ Call
    \/ Project
    \/ Band
    \/ ExtractGeom
    \/ VoronoiPolygons
    \/ VoronoiWithBounds
    \/ Plot1
    \/ Join
    \/ Plot2
    \/ Unique
    \/ Plot3
    \/ Dissolve
    \/ Plot4
    \/ ReturnVector

Spec == Init /\ [][Next]_vars

(* ---------------- the methods of a Vector, call by call --------------- *)
\* a call of a method: self._ds, the value returned and the exception
\* raised are those of its outcome
Do(name, arguments, out) ==
    /\ call' = [name |-> name, args |-> arguments]
    /\ old' = ds
    /\ ds' = out.ds
    /\ ret' = out.value
    /\ err' = out.raised
    /\ pc' = "called"
    /\ UNCHANGED <<io, args, i, vertices, epsg, frames, plots>>

PyInt(n) == [type |-> "int", value |-> n]
PyStr(x) == [type |-> "str", str |-> x]

\* the arguments the calls are made with
CropGeoms == {[type |-> "list", items |-> <<75, 125, 175, 225>>],
              [type |-> "tuple", items |-> <<-25, -25, 75, 75>>],
              RefVector, RefRaster, PyStr("extent")}
DstRefs == {None, RefVector, RefRaster, [type |-> "GeoDataFrame", crs |-> UTM31],
            PyStr("raster.tif"), PyStr("vector.shp"), PyStr("notes.txt"), PyStr("missing.tif"), PyInt(42)}
DstCrss == {None, PyInt(UTM31), PyInt(WGS84), PyStr("not a crs")}
Resolutions == {None, PyInt(25)}
YResolutions == {None, PyInt(50)}
RasterBounds == {None, [type |-> "tuple", items |-> <<0, 0, 250, 100>>]}
InValues == {None, PyInt(1), PyInt(5), [type |-> "list", items |-> <<7, 8>>], [type |-> "object"]}
GridSizes == {<<1000, 1000>>, <<500, 250>>}
Buffers == {PyInt(0), PyInt(25), PyStr("wide")}

\* lines 696-712
Query ==
    \E expression \in Expressions, inplace \in BOOLEAN :
        /\ pc = "idle"
        /\ Do("query", [expression |-> expression, inplace |-> inplace],
           query(ds, expression, inplace))

\* lines 329-365
Crop ==
    \E crop_geom \in CropGeoms, clip_ \in BOOLEAN, inplace \in BOOLEAN :
        /\ pc = "idle"
        /\ Do("crop", [crop_geom |-> crop_geom, clip |-> clip_, inplace |-> inplace],
           crop(ds, crop_geom, clip_, inplace))

\* lines 119-124
GetItem ==
    \E value \in CropGeoms :
        /\ pc = "idle"
        /\ Do("__getitem__", [value |-> value], getitem(ds, value))

\* lines 367-421
Reproject ==
    \E dst_ref \in DstRefs, dst_crs \in DstCrss :
        /\ pc = "idle"
        /\ Do("reproject", [dst_ref |-> dst_ref, dst_crs |-> dst_crs],
           reproject(ds, dst_ref, dst_crs))

\* lines 578-673
Rasterize ==
    \E rst \in {None, RefRaster}, crs \in {None, PyInt(UTM31)}, xres \in Resolutions,
       yres \in YResolutions, bounds \in RasterBounds, in_value \in InValues :
        /\ pc = "idle"
        /\ Do("rasterize",
           [rst |-> rst, crs |-> crs, xres |-> xres, yres |-> yres, bounds |-> bounds,
            in_value |-> in_value, out_value |-> 0],
           rasterize(ds, rst, crs, xres, yres, bounds, in_value, 0))

\* lines 451-559
CreateMask ==
    \E rst \in {None, RefRaster, PyStr("raster.tif")}, crs \in {None, PyInt(UTM31)},
       xres \in Resolutions, yres \in YResolutions, bounds \in RasterBounds,
       buffer_ \in Buffers, as_array \in BOOLEAN :
        /\ pc = "idle"
        /\ Do("create_mask",
           [rst |-> rst, crs |-> crs, xres |-> xres, yres |-> yres, bounds |-> bounds,
            buffer |-> buffer_, as_array |-> as_array],
           create_mask(ds, rst, crs, xres, yres, bounds, buffer_, as_array))

\* lines 714-765
Proximity ==
    \E raster \in {None, RefRaster}, grid_size \in GridSizes :
        /\ pc = "idle"
        /\ Do("proximity", [raster |-> raster, grid_size |-> grid_size],
           proximity(ds, raster, grid_size))

\* the caller has taken the value returned or the exception raised; the
\* vector is there for its next call
NextCall ==
    /\ pc = "called"
    /\ pc' = "idle"
    /\ call' = None /\ old' = None /\ ret' = NoFrame /\ err' = ""
    /\ warned' = <<>> /\ stdout' = <<>>
    /\ UNCHANGED <<ds, version, args, i, vertices, epsg, frames, plots>>

NextVector ==
    \/ NextCall
    \/ Query
    \/ Crop
    \/ GetItem
    \/ Reproject
    \/ Rasterize
    \/ Proximity
    \/ CreateMask

\* a vector read from a file and the calls of its methods, one after the
\* other
SpecVector == Init /\ [][NextVector]_vars

(* ------------- the calls that are to leave the vector alone ------------ *)
\* buffer_without_overlap step by step, buffer_metric and create_mask,
\* called on a vector read from a file
NextFrame ==
    \/ Next
    \/ CreateMask
    \/ NextCall

SpecFrame == Init /\ [][NextFrame]_vars

(* --------------------------- geoutils.misc ---------------------------- *)
PyVersion(x) == [type |-> "Version", base_version |-> x]
\* the current version as the test reads it
current_version == Version(base_version(Version(version)))
\* the removal version the test derives from the current version
removal_version_tuple(deprecation_increment) ==
    LET cur == current_version
    IN  IF cur[3] = 0 /\ deprecation_increment = -1
        THEN <<cur[1], cur[2] + deprecation_increment, 0>>
        ELSE <<cur[1], cur[2], cur[3] + deprecation_increment>>

DeprecationIncrements == {PyInt(-1), PyInt(0), PyInt(1), None}
Details == {None, PyStr("It was completely useless!"), PyStr("dunnowhy")}
\* the warning of a call of a deprecated function
DeprecationWarning(details) == [category |-> "DeprecationWarning", details |-> details]
ValueErrorRemoved == "ValueError: Deprecated function 'useless_func' was removed."

\* The decorated function with the versions compared as strings.
DeprecateByString(removal_version, details) ==
    IF removal_version = None \/ StringGreater(removal_version.base_version, base_version(Version(version)))
    THEN [raised |-> "", value |-> PyInt(1), warned |-> <<DeprecationWarning(details)>>]
    ELSE [raised |-> ValueErrorRemoved, value |-> None, warned |-> <<>>]

\* A call of useless_func decorated with deprecate(removal_version, details).
deprecate(removal_version, details) ==
    LET should_warn ==
            \/ removal_version = None
            \/ VersionGreater(Version(removal_version.base_version), current_version)
    IN  IF should_warn
        THEN [raised |-> "", value |-> PyInt(1), warned |-> <<DeprecationWarning(details)>>]
        ELSE [raised |-> ValueErrorRemoved, value |-> None, warned |-> <<>>]

\* test_deprecate, up to the call of useless_func
Deprecate ==
    \E deprecation_increment \in DeprecationIncrements, details \in Details :
        LET tuple == IF deprecation_increment = None THEN <<>>
                     ELSE removal_version_tuple(deprecation_increment.value)
            removal_version == IF deprecation_increment = None THEN None
                               ELSE PyVersion(base_version(Version(VersionString(tuple))))
            out == deprecate(removal_version, details)
        IN  /\ pc = "idle"
            /\ \A k \in 1..Len(tuple) : tuple[k] >= 0
            /\ call' = [name |-> "deprecate",
                        args |-> [removal_version |-> removal_version, details |-> details,
                                  removal_version_tuple |-> tuple, current_version |-> current_version]]
            /\ ret' = out.value
            /\ err' = out.raised
            /\ warned' = out.warned
            /\ pc' = "called"
            /\ UNCHANGED <<ds, old, version, stdout, args, i, vertices, epsg, frames, plots>>

\* An environment file read as a dictionary: the conda dependencies, and
\* the pip dependencies of the dictionary closing the list, None without one.
Environment(conda, pip) == [conda |-> conda, pip |-> pip]
PyList(x) == [type |-> "list", items |-> x]
Base == {"python==3.9", "numpy", "fiona"}
Envs ==
    {Environment(conda, pip) :
        conda \in {Base, Base \cup {"lol"}},
        pip \in {None, PyList({"lol"}), PyList({"geoutils"})}}
DevEnvs ==
    {Environment(conda, pip) :
        conda \in {Base, Base \cup {"opencv"}},
        pip \in {None, PyList({"geoutils"}), PyList({"geoutils", "-e ./"}), PyList({"-e ./"})}}
PrintDeps == {"conda", "pip", "both", "lol"}

\* a printed line: the dependencies joined by spaces
Line(deps) == [type |-> "str", words |-> deps]
\* the pip dependencies of an environment, none without a pip section
Pip(environment) == IF environment.pip = None THEN {} ELSE environment.pip.items

ValueErrorConda == "ValueError: The following dependencies are listed in env but not dev-env"
ValueErrorPip == "ValueError: The following pip dependencies are listed in env but not dev-env"
ValueErrorPrintDep == "ValueError: The argument print_dep can only be conda, pip or both."

\* The outcomes of the function were the local install of the developers
\* counted as a dependency.
DiffWithLocalInstall(env, devenv, print_dep) ==
    IF env.conda \subseteq devenv.conda /\ Pip(env) \subseteq Pip(devenv) /\ print_dep # "lol"
    THEN LET conda == Line(devenv.conda \ env.conda)
             pip == IF devenv.pip = None THEN None ELSE Line(Pip(devenv) \ Pip(env))
         IN  {[raised |-> "",
               printed |-> IF print_dep = "both" THEN <<conda, pip>>
                           ELSE IF print_dep = "conda" THEN <<conda>> ELSE <<pip>>]}
    ELSE {[raised |-> ValueErrorConda, printed |-> <<>>]}

\* diff_environment_yml(env, devenv, input_dict=True, print_dep): the
\* outcomes it can have. Which of two errors is raised when both apply is
\* not fixed by the tests, either is an outcome.
diff_environment_yml(env, devenv, print_dep) ==
    LET pip_dep_devenv == Pip(devenv) \ {"-e ./"}
        diff_pip_check == IF devenv.pip # None THEN Pip(env) \ pip_dep_devenv ELSE {}
        diff_conda_check == env.conda \ devenv.conda
        diff_pip_dep == IF devenv.pip = None THEN None ELSE Line(pip_dep_devenv \ Pip(env))
        diff_conda_dep == Line(devenv.conda \ env.conda)
        errors == {e \in {ValueErrorConda, ValueErrorPip, ValueErrorPrintDep} :
                      \/ e = ValueErrorConda /\ diff_conda_check # {}
                      \/ e = ValueErrorPip /\ diff_pip_check # {}
                      \/ e = ValueErrorPrintDep /\ print_dep \notin {"conda", "pip", "both"}}
    IN  IF errors # {}
        THEN {[raised |-> e, printed |-> <<>>] : e \in errors}
        ELSE {[raised |-> "",
               printed |-> IF print_dep = "both" THEN <<diff_conda_dep, diff_pip_dep>>
                           ELSE IF print_dep = "conda" THEN <<diff_conda_dep>>
                           ELSE <<diff_pip_dep>>]}

\* test_diff_environment_yml: one call, its output captured. The tests
\* give env a pip section only beside one of dev-env.
DiffEnvironmentYml ==
    \E env \in Envs, devenv \in DevEnvs, print_dep \in PrintDeps :
        \E out \in diff_environment_yml(env, devenv, print_dep) :
            /\ pc = "idle"
            /\ env.pip # None => devenv.pip # None
            /\ call' = [name |-> "diff_environment_yml",
                        args |-> [env |-> env, devenv |-> devenv, print_dep |-> print_dep]]
            /\ ret' = None
            /\ err' = out.raised
            /\ stdout' = out.printed
            /\ pc' = "called"
            /\ UNCHANGED <<ds, old, version, warned, args, i, vertices, epsg, frames, plots>>

\* the package imported, no vector built
InitMisc ==
    /\ ds = None
    /\ call = None /\ old = None
    /\ version \in PackageVersions /\ warned = <<>> /\ stdout = <<>>
    /\ pc = "idle"
    /\ buffer_size = 0 /\ metric = FALSE /\ plot = FALSE
    /\ i = 0 /\ vertices = <<>>
    /\ epsg = 0
    /\ gdf = [crs |-> 0, geometry |-> <<>>]
    /\ buffer = {} /\ bound_poly = {}
    /\ voronoi = NoFrame /\ voronoi_all = NoFrame /\ voronoi_gdf = NoFrame
    /\ order = <<>>
    /\ joined_voronoi = NoFrame /\ unique_voronoi = NoFrame /\ merged_voronoi = NoFrame
    /\ plots = <<>>
    /\ ret = NoFrame
    /\ err = ""

NextMisc ==
    \/ Deprecate
    \/ DiffEnvironmentYml
    \/ NextCall

SpecMisc == InitMisc /\ [][NextMisc]_vars

(* ---------------------- extract_vertices, called ----------------------- *)
\* a square with a square hole
HL == Geom("Polygon", <<Box(0, 0, 150, 150)>>) @@ [interiors |-> <<Coords(Box(50, 50, 100, 100))>>]
\* the collections handed to extract_vertices
HoledCollections == UNION {[1..n -> Catalogue \cup {HL}] : n \in 1..MaxGeoms}

InitExtract ==
    /\ ds \in {GeoDataFrame(WGS84, c) : c \in HoledCollections}
    /\ call = None /\ old = None
    /\ version = PackageVersion /\ warned = <<>> /\ stdout = <<>>
    /\ pc = "idle"
    /\ buffer_size = 0 /\ metric = FALSE /\ plot = FALSE
    /\ i = 0 /\ vertices = <<>>
    /\ epsg = 0
    /\ gdf = [crs |-> 0, geometry |-> <<>>]
    /\ buffer = {} /\ bound_poly = {}
    /\ voronoi = NoFrame /\ voronoi_all = NoFrame /\ voronoi_gdf = NoFrame
    /\ order = <<>>
    /\ joined_voronoi = NoFrame /\ unique_voronoi = NoFrame /\ merged_voronoi = NoFrame
    /\ plots = <<>>
    /\ ret = NoFrame
    /\ err = ""

\* lines 939-965: extract_vertices(self.ds)
ExtractVertices ==
    /\ pc = "idle"
    /\ Do("extract_vertices", [gdf |-> ds],
          Outcome(extract_vertices(ds).raised, PyList(extract_vertices(ds).value), ds))

NextExtract ==
    \/ ExtractVertices
    \/ NextCall

SpecExtract == InitExtract /\ [][NextExtract]_vars

(* ------------------------------ claims -------------------------------- *)
Supported(g) == g.geom_type \in {"MultiPolygon", "Polygon", "LineString", "MultiLineString"}
N == Len(ds.geometry)
Union(frame) == UNION {frame.rows[k].geometry : k \in 1..Len(frame.rows)}
Indexes(frame) == [k \in 1..Len(frame.rows) |-> frame.rows[k].index]
\* the working frame exists
Working == pc \notin {"idle", "project", "buffered"}
\* extract_vertices has returned
Extracted == pc \in {"bounds", "plot1", "join", "plot2", "unique", "plot3", "dissolve",
                     "plot4", "return", "done"}
\* the pieces the join matched to no geometry
Unmatched == {joined_voronoi.rows[k].geometry :
                 k \in {m \in 1..Len(joined_voronoi.rows) : joined_voronoi.rows[m].index_left = NaN}}
\* a piece the join matched to two geometries
SomeDoubleMatch ==
    \E a, b \in 1..Len(joined_voronoi.rows) :
        a # b /\ joined_voronoi.rows[a].index = joined_voronoi.rows[b].index

\* C1: any two distinct polygons returned by buffer_without_overlap have
\* an intersection of zero area.
C1_NoOverlap ==
    pc = "done" =>
        \A a, b \in 1..Len(ret.rows) :
            a # b => Cardinality(ret.rows[a].geometry \cap ret.rows[b].geometry) = 0

\* C1 witness: two polygons are returned after the join matched some piece
\* to two geometries.
C1_Witness == pc = "done" /\ Len(ret.rows) >= 2 /\ SomeDoubleMatch

\* C2 (as claimed): the collection returned holds exactly one polygon per
\* input identity: none is missing, none appears twice.
C2_OnePerIdentity ==
    pc = "done" => Indexes(ret) = [k \in 1..N |-> k]

\* C3 (as claimed): the union of the returned polygons together with the
\* union of the inputs is the buffer of the merged input: the returned
\* polygons cover the whole buffer band.
C3_Coverage ==
    pc = "done" => Union(merged_voronoi) = buffer

\* C3 (amended): the returned polygons together with the pieces the join
\* matched to no geometry cover the whole buffer band.
C3_CoverageButUnmatched ==
    pc = "done" =>
        /\ Union(merged_voronoi) \cup UNION Unmatched = buffer
        /\ Union(ret) = Union(Reprojected(merged_voronoi, ds.crs, metric))

\* C3 witness: a call returns polygons and leaves out a piece that no
\* geometry matched.
C3_Witness == pc = "done" /\ Len(ret.rows) >= 1 /\ UNION Unmatched # {}

\* C4: the result carries the CRS of the vector; with metric=True the
\* steps in between run in the local UTM CRS, with metric=False in the CRS
\* of the vector.
C4_SameCrs ==
    /\ pc = "done" => ret.crs = ds.crs
    /\ Working => gdf.crs = (IF metric THEN epsg ELSE ds.crs)
    /\ Working /\ metric => epsg \notin {0, ds.crs}
    /\ \A c \in {voronoi.crs, voronoi_all.crs, voronoi_gdf.crs, joined_voronoi.crs,
                 unique_voronoi.crs, merged_voronoi.crs} : c \in {NoFrame.crs, gdf.crs}
    /\ pc \in {"return", "done"} => merged_voronoi.crs = gdf.crs

\* C4 witness: a call with metric=True returns polygons computed in a CRS
\* that is not the vector's.
C4_Witness ==
    pc = "done" /\ metric /\ merged_voronoi.crs # ds.crs /\ Len(ret.rows) >= 1

\* C5 (as claimed): on a collection of a single polygon the call does not
\* raise and returns one polygon, the outward buffer of the polygon less
\* the polygon itself.
C5_SinglePolygon ==
    (N = 1 /\ ds.geometry[1].geom_type = "Polygon") =>
        /\ pc # "raised"
        /\ pc = "done" => Len(ret.rows) = 1 /\ Union(merged_voronoi) = buffer

\* the vertices of the exterior ring of the single polygon of the frame
Ring == Range(gdf.geometry[1].exterior)

\* C5 (amended): on a collection of a single polygon the call raises
\* ValueError "Invalid geometry..." exactly when no vertex of the polygon
\* lies strictly inside the convex hull of its vertices (every convex
\* polygon); otherwise it returns one polygon, the outward buffer band of
\* the polygon less the pieces the join matched to nothing.
C5_SinglePolygonOrError ==
    (N = 1 /\ ds.geometry[1].geom_type = "Polygon") =>
        /\ (Working /\ pc \notin {"band", "extract"}) =>
              ((\A v \in Ring : OnHull(v, Ring)) <=> (pc = "raised" /\ err = InvalidGeometry))
        /\ pc = "done" =>
              /\ Len(ret.rows) = 1
              /\ Union(merged_voronoi) \cup UNION Unmatched = buffer
              /\ ret = Reprojected(merged_voronoi, ds.crs, metric)

\* C5 witness: the single polygon with a vertex inside the hull of its
\* vertices was given its whole buffer band.
C5_Witness ==
    /\ pc = "done" /\ N = 1 /\ ds.geometry[1].geom_type = "Polygon"
    /\ Len(ret.rows) = 1 /\ Union(merged_voronoi) = buffer /\ buffer # {}

\* the centroid of a whole collection: of all the parts of its geometries
CollectionCentroid(df) ==
    Centroid(Geom("GeometryCollection", Concat([k \in 1..Len(df.geometry) |-> df.geometry[k].geoms])))

\* C6 (as claimed): the UTM zone used is the zone of the geographic
\* centroid of the whole collection, whatever the order of its geometries.
C6_ZoneOfCollection ==
    epsg # 0 =>
        /\ LET c == CollectionCentroid(to_crs(ds, WGS84))
           IN epsg = utm_to_epsg(latlon_to_utm(c[2] \div 25, c[1] \div 25))
        /\ \A o \in Perms(1..N) :
              epsg = LocalUtmEpsg([ds EXCEPT !.geometry = [k \in 1..N |-> ds.geometry[o[k]]]])

\* the sample of pixel p is within r of the geometry g
Within(p, g, r) == \E k \in 1..Len(g.geoms) : Dist2(Sample(p), g.geoms[k]) <= r * r

\* C7 (as claimed): every point of the polygon returned for identity i
\* lies within buffer_size of geometry i.
C7_WithinOwnBuffer ==
    pc = "done" =>
        \A k \in 1..Len(merged_voronoi.rows) :
            \A p \in merged_voronoi.rows[k].geometry :
                Within(p, gdf.geometry[merged_voronoi.rows[k].index], buffer_size)

\* C7 (amended): every point of the polygon returned for identity i lies
\* within buffer_size of some input geometry and in a piece (a single part
\* of a Voronoi polygon cut to the band) that intersects geometry i.
C7_WithinSomeBuffer ==
    pc = "done" =>
        \A k \in 1..Len(merged_voronoi.rows) :
            LET touching == {m \in 1..Len(voronoi_gdf.rows) :
                                Intersects(gdf.geometry[merged_voronoi.rows[k].index],
                                           voronoi_gdf.rows[m].geometry)}
            IN  \A p \in merged_voronoi.rows[k].geometry :
                    /\ \E g \in 1..N : Within(p, gdf.geometry[g], buffer_size)
                    /\ \E m \in touching : p \in voronoi_gdf.rows[m].geometry

\* C7 witness: a returned polygon holds a point farther than buffer_size
\* from its own geometry.
C7_Witness == pc = "done" /\ ~C7_WithinOwnBuffer

\* C8: plot has no effect on what is returned or raised: a call returns
\* what the call with plot=False returns, and raises what it raises.
C8_PlotNoEffect ==
    /\ (pc = "done" /\ plot) =>
          buffer_without_overlap(ds, buffer_size, metric, order) = Return(ret)
    /\ (pc = "raised" /\ plot) =>
          buffer_without_overlap(ds, buffer_size, metric, <<>>) = Raise(err)

\* C8 witness: a call with plot=True drew its four panels and returned
\* polygons.
C8_Witness == pc = "done" /\ plot /\ Len(plots) = 4 /\ Len(ret.rows) >= 2

\* C9: extract_vertices raises NotImplementedError whenever a geometry of
\* the collection is of an unsupported kind, wherever it sits, and then
\* returns no vertex list.
C9_UnsupportedRaises ==
    Working =>
        LET bad == \E k \in 1..N : ~Supported(gdf.geometry[k])
        IN /\ pc = "extract" => \A k \in 1..(i - 1) : Supported(gdf.geometry[k])
           /\ bad => pc \in {"band", "extract", "raised"}
           /\ (bad /\ pc = "raised") => (err = NotImplemented /\ voronoi = NoFrame)
           /\ bad <=> extract_vertices(gdf) = Raise(NotImplemented)

\* C9 witness: the error is raised at a later position, after vertex lists
\* of the geometries before it were collected.
C9_Witness == pc = "raised" /\ err = NotImplemented /\ i > 1 /\ vertices # <<>>

\* the vertices of the working frame (all its geometries supported)
Points == Range(Concat(extract_vertices(gdf).value))
AllSupported == \A k \in 1..N : Supported(gdf.geometry[k])

\* C10 (as claimed): generate_voronoi_polygons never returns an empty
\* collection; when no closed cell can be assembled, also for fewer than 3
\* vertices not on a line, ValueError "Invalid geometry..." is raised and
\* is what the call raises.
C10_DegenerateValueError ==
    /\ Extracted => Len(voronoi.rows) > 0
    /\ (pc = "raised" /\ AllSupported) => err = InvalidGeometry

\* C10 (amended): generate_voronoi_polygons never returns an empty
\* collection; when the tessellation succeeds (3 vertices not on a line)
\* and no closed cell can be assembled, ValueError "Invalid geometry..."
\* is what the call raises; for fewer than 3 vertices not on a line the
\* call raises the error of the tessellation itself.
C10_DegenerateErrors ==
    /\ Extracted => Len(voronoi.rows) > 0
    /\ (Working /\ pc \notin {"band", "extract"} /\ AllSupported) =>
          LET closed == \E v \in Points : ~OnHull(v, Points)
          IN /\ (Collinear(Points) <=> (pc = "raised" /\ err = QhullError))
             /\ (~Collinear(Points) /\ ~closed) <=> (pc = "raised" /\ err = InvalidGeometry)
    /\ pc = "raised" => ret = NoFrame

\* C10 witness: the call raised the ValueError on vertices that are not on
\* one line.
C10_Witness == pc = "raised" /\ err = InvalidGeometry /\ ~Collinear(Points)

\* the Voronoi polygons cut to the bounding polygon, and what they leave
Cropped == [k \in 1..Len(voronoi.rows) |-> CellIn(voronoi.rows[k].geometry, bound_poly)]
Gaps == bound_poly \ UNION Range(Cropped)
\* generate_voronoi_with_bounds has just returned: to its caller, or to
\* buffer_without_overlap before its plot or its join (no later step
\* changes what it returned)
Bounded == pc \in {"bounded", "plot1", "join"}

\* C11: the polygons generate_voronoi_with_bounds returns lie inside the
\* bounding polygon and together cover it: the Voronoi polygons cut to the
\* bounding polygon, followed by the gap they leave when it has an area,
\* and alone when it has none.
C11_CoversBounds ==
    Bounded =>
        LET cropped == Cropped
            gaps == bound_poly \ UNION Range(cropped)
        IN  /\ \A k \in 1..Len(voronoi_all.rows) : voronoi_all.rows[k].geometry \subseteq bound_poly
            /\ Union(voronoi_all) = bound_poly
            /\ \A k \in 1..Len(cropped) : voronoi_all.rows[k].geometry = cropped[k]
            /\ Cardinality(gaps) # 0 =>
                  /\ Len(voronoi_all.rows) = Len(cropped) + 1
                  /\ voronoi_all.rows[Len(voronoi_all.rows)].geometry = gaps
            /\ Cardinality(gaps) = 0 => Len(voronoi_all.rows) = Len(cropped)

\* C11 witness: the cut polygons cover a bounding polygon with no gap and
\* are returned alone.
C11_Witness ==
    /\ pc = "bounded" /\ Gaps = {} /\ bound_poly # {}
    /\ Len(voronoi_all.rows) = Len(voronoi.rows)

\* the deduplication step has run
Deduplicated == pc \in {"plot3", "dissolve", "plot4", "return", "done"}
\* the positions of the rows of a frame that carry a piece
Occurrences(frame, piece) == {k \in 1..Len(frame.rows) : frame.rows[k].index = piece}
\* the smallest of a set of positions
First(positions) == CHOOSE k \in positions : \A m \in positions : k <= m

\* C19: after the deduplication every exploded piece of the join output
\* appears exactly once, with the identity of its first occurrence in the
\* join output, however many geometries it matched.
C19_FirstMatchWins ==
    Deduplicated =>
        /\ \A k \in 1..Len(joined_voronoi.rows) :
               LET piece == joined_voronoi.rows[k].index
                   kept == Occurrences(unique_voronoi, piece)
               IN  /\ Cardinality(kept) = 1
                   /\ unique_voronoi.rows[First(kept)]
                          = joined_voronoi.rows[First(Occurrences(joined_voronoi, piece))]
        /\ \A u \in 1..Len(unique_voronoi.rows) :
               Occurrences(joined_voronoi, unique_voronoi.rows[u].index) # {}

\* a piece matched to two geometries, whose second match has another
\* identity than the one kept
C19_Witness ==
    /\ pc = "dissolve"
    /\ \E a, b \in 1..Len(joined_voronoi.rows) :
           /\ a < b
           /\ joined_voronoi.rows[a].index = joined_voronoi.rows[b].index
           /\ joined_voronoi.rows[a].index_left # joined_voronoi.rows[b].index_left
           /\ \E u \in 1..Len(unique_voronoi.rows) :
                  /\ unique_voronoi.rows[u].index = joined_voronoi.rows[a].index
                  /\ unique_voronoi.rows[u].index_left
                         = joined_voronoi.rows[First(Occurrences(joined_voronoi, joined_voronoi.rows[a].index))].index_left

\* the dissolve step has run
Dissolved == pc \in {"plot4", "return", "done"}
\* the rows of the join output that no geometry matched
UnmatchedRows == {k \in 1..Len(joined_voronoi.rows) : joined_voronoi.rows[k].index_left = NaN}
\* the identities of a frame of results
Identities(frame) == {frame.rows[k].index : k \in 1..Len(frame.rows)}

\* C20: a piece of the band that the join matches to no geometry raises no
\* error and is part of no result polygon: the dissolve drops it and makes
\* no result entry for it.
C20_UnmatchedDropped ==
    (Dissolved /\ UnmatchedRows # {}) =>
        /\ err = ""
        /\ \A k \in UnmatchedRows : joined_voronoi.rows[k].geometry \cap Union(merged_voronoi) = {}
        /\ NaN \notin Identities(merged_voronoi)
        /\ Identities(merged_voronoi)
               = {unique_voronoi.rows[u].index_left : u \in 1..Len(unique_voronoi.rows)} \ {NaN}
        /\ pc = "done" =>
               /\ Identities(ret) = Identities(merged_voronoi)
               /\ ret = Reprojected(merged_voronoi, ds.crs, metric)

\* a call has returned two polygons and a piece of positive area matched
\* no geometry
C20_Witness ==
    /\ pc = "done" /\ err = ""
    /\ Len(ret.rows) = 2
    /\ \E k \in UnmatchedRows : joined_voronoi.rows[k].geometry # {}

\* the pixel p lies inside an input geometry
Inside(p) == \E b \in AllBoxes(gdf) : PixelIn(p, b)

\* C21: every polygon returned by buffer_without_overlap lies inside the
\* raw buffer band: it shares no area with an input geometry and has no
\* point farther than buffer_size from the merged input, with or without
\* gap polygons added by the bounded Voronoi step.
C21_InsideBand ==
    pc = "done" =>
        /\ \A k \in 1..Len(merged_voronoi.rows) :
               \A p \in merged_voronoi.rows[k].geometry :
                   /\ ~Inside(p)
                   /\ \E g \in 1..N : Within(p, gdf.geometry[g], buffer_size)
        /\ ret = Reprojected(merged_voronoi, ds.crs, metric)

\* a call returns polygons where a gap polygon was added, the Voronoi
\* polygons reach into an input geometry of positive area and beyond the
\* band
C21_Witness ==
    /\ pc = "done" /\ Len(ret.rows) >= 1
    /\ Len(voronoi_all.rows) > Len(voronoi.rows)
    /\ \E p \in Union(voronoi_all) : Inside(p)
    /\ \E p \in Union(voronoi_all) : \A g \in 1..N : ~Within(p, gdf.geometry[g], buffer_size)

(* ----------------- claims on the methods of a Vector ------------------- *)
\* the method `name' was called and has returned or raised
Called(name) == pc = "called" /\ call.name = name
ValueErrors == {ValueErrorEither, ValueErrorPath, ValueErrorOpen}

\* C12 (as claimed): query with inplace=True leaves in self.ds the rows of
\* the previous ds that satisfy the expression and returns the vector
\* itself; with inplace=False it returns a new Vector of those rows.
C12_QueryInPlace ==
    (Called("query") /\ old # None) =>
        LET rows == DataFrameQuery(old, call.args.expression)
        IN /\ err = ""
           /\ IF call.args.inplace THEN ds = rows /\ ret = Vector(ds)
              ELSE ret = Vector(rows) /\ ds = old

Target(dst_ref, dst_crs) ==
    IF dst_ref = None THEN (IF dst_crs.type = "int" THEN dst_crs.value ELSE 0)
    ELSE IF dst_ref.type \in {"Raster", "DatasetReader", "GeoDataFrame"} THEN dst_ref.crs
    ELSE IF dst_ref.type = "Vector" THEN dst_ref.ds.crs
    ELSE IF dst_ref.type = "str" /\ dst_ref.str \in DOMAIN Files /\ Files[dst_ref.str] # None
    THEN CrsOf(Files[dst_ref.str])
    ELSE 0

Asked(df, a) ==
    LET b == IF a.crop_geom.type \in {"Raster", "Vector"}
             THEN get_bounds_projected(a.crop_geom, df.crs)
             ELSE Box(a.crop_geom.items[1], a.crop_geom.items[2],
                      a.crop_geom.items[3], a.crop_geom.items[4])
    IN IF a.clip THEN clip(df, b) ELSE cx(df, b)

\* the arguments of the crop a call of crop or __getitem__ makes
CropArgs ==
    IF call.name = "crop" THEN call.args
    ELSE [crop_geom |-> call.args.value, clip |-> FALSE, inplace |-> FALSE]

\* C14: crop with inplace=False, and vector[crop_geom], return a new
\* Vector of the cropped rows and leave self.ds unchanged; with
\* inplace=True crop returns None and self.ds is the cropped geodataframe;
\* a crop_geom of another type than Raster, Vector, list or tuple raises
\* TypeError and leaves the vector unchanged, as does every call that
\* raises.
C14_CropFrame ==
    (Called("crop") \/ Called("__getitem__")) =>
        LET a == CropArgs
            valid == a.crop_geom.type \in {"Raster", "Vector", "list", "tuple"}
        IN /\ ~valid <=> err = TypeErrorCrop
           /\ err # "" => (ds = old /\ ret = None)
           /\ (valid /\ old = None) => err = AttributeError
           /\ (valid /\ old # None) =>
                 /\ err = ""
                 /\ IF a.inplace THEN ret = None /\ ds = Asked(old, a)
                    ELSE ret = Vector(Asked(old, a)) /\ ds = old

\* C14 witness: a crop with inplace=False returned a Vector with fewer
\* rows than the vector, which kept all of its own.
C14_Witness ==
    /\ Called("crop") /\ ~call.args.inplace /\ err = ""
    /\ Len(ret.ds.geometry) < Len(ds.geometry) /\ ds = old

\* C14 witness of the other cases: an in-place crop dropped rows
C14_WitnessInPlace ==
    /\ Called("crop") /\ call.args.inplace /\ err = ""
    /\ Len(ds.geometry) < Len(old.geometry)

\* the values burnt by a call of rasterize that returned
Burnt == [k \in 1..Len(ret.data.burned) |-> ret.data.burned[k].value]

\* C15 (as claimed): whatever in-place crops and queries came before,
\* rasterize without in_value burns 1, 2, ..., len(self.ds), one value per
\* remaining feature.
C15_DefaultValues ==
    (Called("rasterize") /\ call.args.in_value = None /\ err = "") =>
        Burnt = [k \in 1..Len(ds.geometry) |-> k]

\* C16 (as claimed): without a raster, proximity builds its grid of the
\* size grid_size over the bounds of the vector: the array has grid_size[1]
\* rows and grid_size[0] columns, as the transform has.
C16_GridSize ==
    (Called("proximity") /\ call.args.raster = None /\ err = "") =>
        LET grid_size == call.args.grid_size
            b == TotalBounds(ds)
        IN /\ ret.shape = <<grid_size[2], grid_size[1]>>
           /\ ret.transform = from_bounds(b.x0, b.y0, b.x1, b.y1, grid_size[1], grid_size[2])
           /\ RasterBoundsOf(ret) = b


\* the bounds a call without a raster makes its grid over: those given,
\* or those of the vector
GridBounds ==
    IF call.args.bounds = None THEN TotalBounds(old)
    ELSE Box(call.args.bounds.items[1], call.args.bounds.items[2],
             call.args.bounds.items[3], call.args.bounds.items[4])
\* yres, xres where it is not given
YRes == IF call.args.yres = None THEN call.args.xres.value ELSE call.args.yres.value

\* C23: create_mask called without a raster rasterizes on a grid of
\* round(|right - left| / xres) columns and round(|top - bottom| / yres)
\* rows, the shape and transform rasterize builds for the same xres, yres
\* and bounds, square or not.
C23_GridOfCreateMask ==
    (Called("create_mask") /\ err = "" /\ call.args.rst = None /\ call.args.crs = None) =>
        LET columns == Round(Abs(GridBounds.x1 - GridBounds.x0), call.args.xres.value)
            rows == Round(Abs(GridBounds.y1 - GridBounds.y0), YRes)
        IN  /\ ret.shape = <<rows, columns>>
            /\ ret.shape = GridOf(GridBounds, call.args.xres.value, YRes).out_shape
            /\ ~call.args.as_array =>
                   ret.transform = GridOf(GridBounds, call.args.xres.value, YRes).transform

\* in_value is an iterable of another length than the vector
WrongLength ==
    /\ call.args.in_value # None /\ call.args.in_value.type \in {"list", "tuple", "Index"}
    /\ Len(call.args.in_value.items) # Len(old.geometry)
\* in_value is neither a number nor an iterable
WrongType ==
    call.args.in_value # None /\ call.args.in_value.type \notin {"int", "float", "list", "tuple", "Index"}
\* in_value is the single number 1
One == call.args.in_value # None /\ call.args.in_value.type \in {"int", "float"}
           /\ call.args.in_value.value = 1
\* the ValueErrors of rasterize, and those numpy and rasterio raise in it
RasterizeValueErrors ==
    {ValueErrorOnlyOne, ValueErrorXres, ValueErrorLength, ValueErrorInValue,
     ValueErrorNaN, ValueErrorNoShapes, ValueErrorShape}
\* the grid rasterize makes without a raster has no row or no column
NoCell ==
    /\ call.args.rst = None
    /\ \/ Round(Abs(GridBounds.x1 - GridBounds.x0), call.args.xres.value) = 0
       \/ Round(Abs(GridBounds.y1 - GridBounds.y0), YRes) = 0

HasWorkingCollection == pc \notin {"idle", "project", "buffered", "called"}

\* C25: buffer_without_overlap, buffer_metric and create_mask leave the
\* vector they are called on unchanged (rows, geometries, index, CRS), for
\* both values of metric and when the call raises; with metric=False the
\* working collection is the ds of the vector itself, and stays equal to
\* it: no step writes to it.
C25_VectorUnchanged ==
    /\ [][ds' = ds]_vars
    /\ []((HasWorkingCollection /\ ~metric) => gdf = ds)

\* create_mask has returned after cropping and buffering its copy of the
\* geodataframe, which differs from that of the vector
C25_Witness ==
    /\ Called("create_mask") /\ err = ""
    /\ call.args.buffer.value = 25
    /\ ds = old
    /\ MaskOf(ds, call.args.rst, call.args.crs, call.args.xres, call.args.yres,
              call.args.bounds, call.args.buffer, call.args.as_array).gdf # ds

(* ----------------------- claims on geoutils.misc ----------------------- *)
\* the release a.b.c as one number
Weight(release) == 1000000 * release[1] + 1000 * release[2] + release[3]

\* C17: a call of a function decorated with deprecate(removal_version,
\* details) emits a DeprecationWarning when removal_version is None or
\* strictly greater than the current version of the package, and raises
\* ValueError when it is smaller or equal, the versions being compared as
\* numbers and not as strings.
C17_DeprecateByNumber ==
    Called("deprecate") =>
        IF \/ call.args.removal_version = None
           \/ Weight(call.args.removal_version_tuple) > Weight(call.args.current_version)
        THEN /\ err = ""
             /\ Len(warned) = 1 /\ warned[1].category = "DeprecationWarning"
        ELSE /\ err = ValueErrorRemoved
             /\ warned = <<>>

\* removal in 0.0.10 of a function of version 0.0.9, "0.0.10" being the
\* smaller string: a warning
C17_Witness ==
    /\ Called("deprecate")
    /\ call.args.current_version = <<0, 0, 9>>
    /\ call.args.removal_version_tuple = <<0, 0, 10>>
    /\ ~StringGreater(call.args.removal_version.base_version, version)
    /\ Len(warned) = 1 /\ err = ""


\* what the call prints for a kind were it exactly the dependencies of
\* dev-env that env does not list, the local install left out
Missing(kind) ==
    LET env == call.args.env
        devenv == call.args.devenv
    IN  IF kind = "conda" THEN Line(devenv.conda \ env.conda)
        ELSE Line((Pip(devenv) \ Pip(env)) \ {"-e ./"})
\* a dependency of env that dev-env does not list
Unlisted ==
    \/ ~(call.args.env.conda \subseteq call.args.devenv.conda)
    \/ ~(Pip(call.args.env) \subseteq Pip(call.args.devenv))
\* the kinds a value of print_dep asks for
Kinds(print_dep) ==
    IF print_dep = "both" THEN <<"conda", "pip">>
    ELSE IF print_dep \in {"conda", "pip"} THEN <<print_dep>> ELSE <<>>

Constituents(g) == IF g.geom_type \in {"MultiPolygon", "MultiLineString"} THEN Len(g.geoms) ELSE 1
\* the vertices of the constituent j of a geometry
VerticesOf(g, j) == IF g.geom_type = "Polygon" THEN g.exterior ELSE Coords(g.geoms[j])
RECURSIVE Before(_, _)
\* the number of constituents of the geometries before position k
Before(geometry, k) ==
    IF k <= 1 THEN 0 ELSE Before(geometry, k - 1) + Constituents(geometry[k - 1])

====
